---- MODULE Spec2Model ----
(***************************************************************************)
(* A model of two engines of the library:                                  *)
(*                                                                         *)
(*  - the inverse geometric map of MappingQGeneric                         *)
(*    (source/fe/mapping_q_generic.cc): transform_unit_to_real_cell,       *)
(*    transform_real_to_unit_cell, the dim==spacedim Newton iteration with *)
(*    its line search and the codimension-one iteration;                   *)
(*                                                                         *)
(*  - the setup pipeline of MatrixFree                                     *)
(*    (include/deal.II/matrix_free/matrix_free.templates.h):               *)
(*    internal_reinit, initialize_dof_handlers, compute_dof_info.          *)
(*                                                                         *)
(* Reals are modelled on a grid: a reference coordinate xi is the integer  *)
(* xi * Scale, a real coordinate x the integer x * Scale.  Cells whose     *)
(* geometry is not on the grid are "general": every floating-point         *)
(* comparison the code makes on them may come out either way.              *)
(***************************************************************************)
EXTENDS Integers, Sequences, FiniteSets

VARIABLES
  \* ---- MappingQGeneric: one mapping object, one cell, one point query
  dim,                \* template parameter dim
  spacedim,           \* template parameter spacedim
  polynomial_degree,  \* MappingQGeneric::polynomial_degree
  preserves,          \* this->preserves_vertex_locations()
  debug,              \* the build: TRUE when Assert() is compiled in
  geom,               \* "affine" (straight 1d cell on the grid) or "general"
  inverted,           \* affine cell with its two vertices exchanged
  displacement,       \* how often vertex 0 has been moved along the diagonal
  xi,                 \* the reference point handed to transform_unit_to_real_cell
  p,                  \* the real point handed to transform_real_to_unit_cell
  pc,                 \* position inside transform_real_to_unit_cell
  p_unit,             \* the iterate / the point about to be returned
  det,                \* sign of determinant(p_real.second) at the iterate
  newton_iteration,   \* the counter of do_transform_real_to_unit_cell_internal
  step_length,        \* the line search's step length, in units of 1/FullStep
  trials,             \* step lengths evaluated in the current line search
  loop,               \* the counter of the codimension-one iteration
  outcome,            \* how the call ended
  via,                \* which path produced the outcome
  closed_form,        \* what the quadratic formula gave in this query
  internal_calls,     \* calls of transform_real_to_unit_cell_internal
  \* ---- MatrixFree: one object on one triangulation, one reinit at a time
  env,                        \* mesh, SIMD width and processes it is set up on
  additional_data,            \* the AdditionalData handed to reinit
  setup_pc,                   \* position inside internal_reinit
  task_info,                  \* scheme, n_procs, cell counts, cell_partition_data
  cell_level_index,           \* the cell handles, batched at the end
  cell_level_index_end_local, \* number of locally owned cells
  cell_active_fe_index,       \* dof_info[0].cell_active_fe_index
  counter,                    \* cells whose indices read_dof_indices has read
  subdomain_boundary_cells,   \* owned cells that need ghost data
  ghosts_assigned,            \* assign_ghosts has run
  renumbering,                \* new position -> old position of a cell
  irregular_cells,            \* per batch: active lanes, 0 for a full batch
  connectivity,               \* the cell graph handed to make_thread_graph
  indices_are_initialized,
  mapping_is_initialized,
  setup_error,                \* the exception that ended the setup, or "none"
  \* ---- MappingQGeneric::fill_fe_values: one InternalData, one cell at a time
  fill_pc,                    \* position inside fill_fe_values
  update_each,                \* data.update_each
  cell_similarity,            \* the similarity the caller hands in
  computed_cell_similarity,   \* the similarity the function works with
  evaluation_path,            \* "general", "tensor" or "collocation"
  determinants,               \* per quadrature point: determinant of the Jacobian
  JxW_sized,                  \* output_data.JxW_values.size() == n_q_points
  quantities,                 \* the quantities this call has written
  JxW_values,                 \* output_data.JxW_values of this call
  inverse_jacobians,          \* output_data.inverse_jacobians of this call
  fill_error,                 \* the exception that ended the call, or "none"
  fill_result,                \* the similarity the call returned
  \* the closed form of the inverse on a bilinear quadrilateral
  formula_pc,                 \* "idle", "call" or "done"
  vertices,                   \* the four vertices of the cell
  point,                      \* the point p to invert
  formula_result,             \* what the call returned or threw
  \* the pool of constraint coefficients of MatrixFree
  pool_pc,                    \* "idle" or "reading"
  last_call,                  \* the last call made on the object
  entries_read,               \* coefficient vectors read in this setup
  n_entries_read,             \* how many have been read
  rows_before,                \* rows the pool had when this setup began
  constraint_values,          \* constraint_values.constraints
  constraint_pool_data,
  constraint_pool_row_index,
  \* initialize_dof_handlers on a refined triangulation
  resolve_pc,                 \* "building", "partitioning" or "resolved"
  refined,                    \* the cells that have children
  not_owned,                  \* cells whose subdomain_id is not my_pid
  level_not_owned,            \* cells whose level_subdomain_id is not my_pid
  distributed,                \* the triangulation is a parallel one
  mg_level,                   \* additional_data.mg_level of the last setup
  \* compute_dof_info: the tasks that build the face connectivity
  graph_pc,                   \* "idle", "cells", "index", "direct",
                              \* "symmetrized" or "indirect"
  tasks,                      \* the subranges apply_to_subranges handed out
  cell_map,                   \* map: (level, index) pair -> position
  connectivity_direct,        \* rows of the DynamicSparsityPattern
  row_writers,                \* the tasks that wrote a row in this sweep
  inserted   ,                 \* the map.insert calls: <<task, key, value>>
  \* MappingQGeneric::requires_update_flags
  flags_pc,                   \* "idle", "loop" or "returned"
  first_in,                   \* the flags the caller of the first call asked for
  flags_in,                   \* the argument in of the call
  flags_out,                  \* the local variable out
  flags_i,                    \* the loop variable i
  on_result   ,                \* the call is one on the result of the call before
  \* MappingQGeneric::InternalData across calls of the fill functions
  mapping_support_points,         \* data.mapping_support_points
  cell_of_current_support_points, \* data.cell_of_current_support_points
  moved,                          \* how far vertex 0 of each cell has been moved
  fill_call,                      \* the fill function called last
  fill_cell,                      \* the cell passed to it
  points_used,                    \* the support points that call worked with
  points_of_cell   ,               \* the support points its cell had then
  \* MatrixFree::create_cell_subrange_hp_by_index
  range_pc,                   \* "idle" or "returned"
  active_fe_indices,          \* dof_info[vector_component].cell_active_fe_index
  range,                      \* the argument range, as <<first, second>>
  fe_index,                   \* the argument fe_index
  return_range,               \* what the call returned
  range_error   ,              \* the Assert that failed, or "none"
  \* MappingQGeneric: the initial guess of the two inverse transformations
  guess_pc,                   \* "idle" or "guessed"
  guess_call,                 \* the function that was called
  real_point,                 \* the point p or real_points[i], times Scale
  support_shift,              \* how far the mapping moves the vertices
  initial_guess,              \* initial_p_unit or initial_guess
  handed_to_newton            \* the point the iteration starts from, if any

inv_vars == <<dim, spacedim, polynomial_degree, preserves, debug, geom,
              inverted, displacement, xi, p, pc, p_unit, det,
              newton_iteration, step_length, trials, loop, outcome, via,
              closed_form, internal_calls>>

setup_vars == <<env, additional_data, setup_pc, task_info, cell_level_index,
                cell_level_index_end_local, cell_active_fe_index, counter,
                subdomain_boundary_cells, ghosts_assigned, renumbering,
                irregular_cells, connectivity, indices_are_initialized,
                mapping_is_initialized, setup_error>>

fill_vars == <<fill_pc, update_each, cell_similarity, computed_cell_similarity,
               evaluation_path, determinants, JxW_sized, quantities, JxW_values,
               inverse_jacobians, fill_error, fill_result>>

formula_vars == <<formula_pc, vertices, point, formula_result>>

pool_vars == <<pool_pc, last_call, entries_read, n_entries_read, rows_before,
               constraint_values, constraint_pool_data,
               constraint_pool_row_index>>

\* initialize_dof_handlers on a refined triangulation
tree_vars == <<resolve_pc, refined, not_owned, level_not_owned, distributed,
               mg_level>>

\* the tasks of compute_dof_info
graph_vars == <<graph_pc, tasks, cell_map, connectivity_direct, row_writers,
                inserted>>

\* requires_update_flags
flags_vars == <<flags_pc, first_in, flags_in, flags_out, flags_i, on_result>>

\* one InternalData object and the cells it is used on
cache_vars == <<mapping_support_points, cell_of_current_support_points,
                moved, fill_call, fill_cell, points_used, points_of_cell>>

\* one call of create_cell_subrange_hp_by_index
range_vars == <<range_pc, active_fe_indices, range, fe_index, return_range, range_error>>

\* the initial guess of the inverse transformations
guess_vars == <<guess_pc, guess_call, real_point, support_shift, initial_guess, handed_to_newton>>

past_graph_vars == <<flags_vars, cache_vars, range_vars, guess_vars>>

past_tree_vars == <<graph_vars, past_graph_vars>>

ext_vars == <<tree_vars, past_tree_vars>>

aux_vars == <<fill_vars, formula_vars, pool_vars, ext_vars>>

vars == <<inv_vars, setup_vars, aux_vars>>

-----------------------------------------------------------------------------
(* Bounds of the model *)

MaxDegree == 2
XiSteps == 2
MaxDisplace == 2
CellLength == 4

Scale == 2 * XiSteps

(* Program constants *)

newton_iteration_limit == 20
loop_limit == 10
FullStep == 3200
StepThreshold == 160

\* the (dim, spacedim) pairs the class is instantiated for
Instantiations ==
  {<<1, 1>>, <<2, 2>>, <<3, 3>>, <<1, 2>>, <<1, 3>>, <<2, 3>>}

-----------------------------------------------------------------------------
(* Points *)

Finite(v) == [kind |-> "finite", v |-> v]
Abstract == [kind |-> "abstract", v |-> 0]
invalid_point == [kind |-> "inf", v |-> 0]
DefaultPoint == Finite(0)

Dot(a, b) == LET n == Len(a)
                 S[i \in 0..n] == IF i = 0 THEN 0 ELSE S[i - 1] + a[i] * b[i]
             IN S[n]

Minus(a, b) == [i \in 1..Len(a) |-> a[i] - b[i]]

\* a / b for a divisor of either sign
Quot(a, b) == IF b > 0 THEN a \div b ELSE (0 - a) \div (0 - b)

(* The cell: a straight line from vertex 0 to vertex 1.  Vertex 1 of the
   unit hyper cube is (CellLength, 0, ...); vertex 0 starts at the origin
   and is moved along the diagonal. *)
Diagonal(j) == [d \in 1..spacedim |-> j]
FarVertex == [d \in 1..spacedim |-> IF d = 1 THEN CellLength ELSE 0]
Vertex0 == IF inverted THEN FarVertex ELSE Diagonal(displacement)
Vertex1 == IF inverted THEN Diagonal(displacement) ELSE FarVertex

(* compute_mapped_location_of_point, dim = 1, support points on the straight
   line between the vertices: (1 - xi) * points[0] + xi * points[1] and the
   derivative points[1] - points[0].  first is scaled by Scale. *)
compute_mapped_location_of_point(x) ==
  [first  |-> [d \in 1..spacedim |->
                 (Scale - x) * Vertex0[d] + x * Vertex1[d]],
   second |-> Minus(Vertex1, Vertex0)]

(* internal::MappingQ1::transform_real_to_unit_cell, 1d *)
transform_real_to_unit_cell_1d(q) ==
  Quot(q[1] - Scale * Vertex0[1], Vertex1[1] - Vertex0[1])

(* cell->real_to_unit_cell_affine_approximation(p) of a straight line *)
real_to_unit_cell_affine_approximation(q) ==
  LET d == Minus(Vertex1, Vertex0)
  IN Quot(Dot(Minus(q, [i \in 1..spacedim |-> Scale * Vertex0[i]]), d),
          Dot(d, d))

\* a projection that looks at the lower end of the unit cell only
project_below_only(x) == IF x < 0 THEN 0 ELSE x

(* GeometryInfo<dim>::project_to_unit_cell *)
project_to_unit_cell(x) ==
  IF x < 0 THEN 0 ELSE IF x > Scale THEN Scale ELSE x

Sign(x) == IF x > 0 THEN 1 ELSE IF x < 0 THEN -1 ELSE 0


-----------------------------------------------------------------------------
(* What a floating-point test may answer.  On the grid the answer is
   computed; for a general cell both answers are possible. *)

\* f = p_real.first - p at the iterate x (dim == spacedim == 1)
Residual(x) == compute_mapped_location_of_point(x).first[1] - p[1]

\* line 929: f.norm_square() < 1e-24 * p_real.second.norm_square()
EarlyOut(x) ==
  IF geom = "affine"
    THEN {Residual(x) = 0 /\ compute_mapped_location_of_point(x).second[1] # 0}
    ELSE BOOLEAN

\* determinant(df) of the 1 x 1 Jacobian
Determinant(x) ==
  IF geom = "affine"
    THEN {Sign(compute_mapped_location_of_point(x).second[1])}
    ELSE {-1, 0, 1}

\* delta = df_inverse * f
Delta(x) ==
  Quot(Residual(x), compute_mapped_location_of_point(x).second[1])

\* p_unit_trial[i] -= step_length * delta[i]
TrialPoint(x, s) ==
  IF geom = "affine" THEN Finite(x - Quot(s * Delta(x), FullStep))
                     ELSE Abstract

\* line 1030: f_trial.norm_square() < f.norm_square()
Progress(x, t) ==
  IF geom = "affine"
    THEN {Residual(t.v) * Residual(t.v) < Residual(x) * Residual(x)}
    ELSE BOOLEAN

\* line 1049: last_f_weighted_norm_square > eps * eps fails
Converged(x) ==
  IF geom = "affine" THEN {Delta(x) = 0} ELSE BOOLEAN

\* codimension one: f[j] = DF[j] * p_minus_F  and  df = -DF * DF + D2F * p_minus_F
Codim1F(x) ==
  LET m == compute_mapped_location_of_point(x)
  IN Dot(m.second, Minus(p, m.first))

Codim1DF(x) ==
  LET m == compute_mapped_location_of_point(x)
  IN 0 - Dot(m.second, m.second)

\* line 1125: f.norm() > eps
AboveEps(x) ==
  IF geom = "affine" THEN {Codim1F(x) # 0} ELSE BOOLEAN

\* a step of half the length of the Newton step
Codim1HalfStep(x) ==
  IF geom = "affine" THEN Finite(x - Quot(Codim1F(x), 2 * Codim1DF(x)))
                     ELSE Abstract

\* lines 1128-1130: p_unit -= invert(df) * f
Codim1Step(x) ==
  IF geom = "affine" THEN Finite(x - Quot(Codim1F(x), Codim1DF(x)))
                     ELSE Abstract

-----------------------------------------------------------------------------
(* The tests the code branches on *)

\* line 2192
UseExactFormula ==
  preserves /\ polynomial_degree = 1 /\
  (dim = 1 \/ (dim = 2 /\ dim = spacedim))

\* a solve that lets a singular Jacobian through
DegenerateJacobianStrict(d) == d < 0

\* line 984: determinant(df) <= 0
DegenerateJacobian(d) == d <= 0

\* a line search that gives up at twice the threshold
LineSearchContinuesTenth(s) == s > 2 * StepThreshold

\* line 1037: step_length > 0.05
LineSearchContinues(s) == s > StepThreshold

\* line 1045: newton_iteration > newton_iteration_limit
IterationCapExceeded(n) == n > newton_iteration_limit

\* line 2297: p_unit[0] == infinity
IsSentinel(pt) == pt.kind = "inf"

\* which implementation transform_real_to_unit_cell_internal resolves to
InternalPath ==
  IF dim = spacedim THEN "newton"
  ELSE IF spacedim = dim + 1 THEN "codim1"
  ELSE "not_implemented"

-----------------------------------------------------------------------------
(* MatrixFree: bounds and inputs *)

MaxCells == 3
MaxGhost == 1
MaxLanes == 2
MaxThreads == 2

\* AdditionalData::TasksParallelScheme
Schemes == {"none", "partition_partition", "partition_color", "color"}

\* numbers::invalid_unsigned_int
invalid_unsigned_int == 0 - 1

\* task_info.block_size: one batch per block
block_size == 1

\* The triangulation is a row of env.n_cells locally owned cells, which other
\* processes continue; a periodic row of one process is closed to a ring.
Environments ==
  {e \in [n_cells : 1..MaxCells, n_lanes : 1..MaxLanes, n_procs : 1..2,
          fes_size : 1..2, periodic : BOOLEAN] :
     e.periodic => (e.n_procs = 1 /\ e.n_cells >= 3)}

CategoryVectors(n) == {<<>>} \cup [1..n -> {0, 1}]

AdditionalDataChoices(e) ==
  {a \in [tasks_parallel_scheme : Schemes,
          cell_vectorization_category : CategoryVectors(e.n_cells),
          cell_vectorization_categories_strict : BOOLEAN,
          mapping_update_flags_inner_faces : BOOLEAN,
          overlap_communication_computation : BOOLEAN] :
     /\ a.cell_vectorization_categories_strict
          = (a.cell_vectorization_category # <<>>)
     /\ e.n_procs = 1 => a.overlap_communication_computation}

\* AdditionalData(): the defaults of its constructor
DefaultData ==
  [tasks_parallel_scheme |-> "partition_partition",
   cell_vectorization_category |-> <<>>,
   cell_vectorization_categories_strict |-> FALSE,
   mapping_update_flags_inner_faces |-> FALSE,
   overlap_communication_computation |-> TRUE]

\* task_info.clear()
ClearedTaskInfo ==
  [scheme |-> "none", n_procs |-> 1, n_active_cells |-> 0,
   n_ghost_cells |-> 0, cell_partition_data |-> <<>>]

-----------------------------------------------------------------------------
(* MatrixFree: sequences and the mesh *)

Ceil(a, b) == (a + b - 1) \div b
Min(a, b) == IF a < b THEN a ELSE b
Max(S) == CHOOSE x \in S : \A y \in S : y <= x
Iota(a, b) == IF b < a THEN <<>> ELSE [i \in 1..(b - a + 1) |-> a + i - 1]
Elements(s) == {s[i] : i \in 1..Len(s)}
Part(s, a, b) == IF b < a THEN <<>> ELSE SubSeq(s, a, b)

RECURSIVE Flatten(_)
Flatten(ss) == IF ss = <<>> THEN <<>> ELSE Head(ss) \o Flatten(Tail(ss))

\* the cells of s whose index in fe is j - 1, for j = 1..n, in the order of s
GroupBy(s, fe, n) ==
  IF n < 1 THEN <<>>
  ELSE [j \in 1..n |-> SelectSeq(s, LAMBDA c : fe[c] = j - 1)]

\* irregular_cells of n cells cut into batches of W lanes
BatchSizes(n, W) ==
  IF n = 0 THEN <<>>
  ELSE [i \in 1..Ceil(n, W) |-> IF i = Ceil(n, W) THEN n % W ELSE 0]

\* (irregular_cells[i] > 0) ? irregular_cells[i] : n_lanes
LaneCount(e, W) == IF e > 0 THEN e ELSE W

\* number of cells in the first b batches
CellsBefore(irr, W, b) ==
  LET S[i \in 0..b] == IF i = 0 THEN 0 ELSE S[i - 1] + LaneCount(irr[i], W)
  IN S[b]

IsOwned(c) == c <= env.n_cells
level_subdomain_id(c) == IF IsOwned(c) THEN 0 ELSE 1
MeshCells == (1..env.n_cells) \cup Elements(cell_level_index)
FaceNeighbors(c) ==
  {d \in MeshCells : \/ d = c + 1
                     \/ d = c - 1
                     \/ (env.periodic /\ {c, d} = {1, env.n_cells})}

\* dcell->at_boundary(f) for the face f of c that d lies behind: a face with
\* a periodic neighbor is a face at the boundary
at_boundary(c, d) == d # c + 1 /\ d # c - 1

\* mapping_update_flags_inner_faces | ..._boundary_faces != update_default
DoFaceIntegrals(a) == a.mapping_update_flags_inner_faces

\* FaceSetup::initialize: the ghost cells it appends to cell_level_index
GhostCells(n_ghost) == Iota(env.n_cells + 1, env.n_cells + n_ghost)

\* FaceSetup::at_processor_boundary
at_processor_boundary(c) ==
  /\ DoFaceIntegrals(additional_data)
  /\ IsOwned(c)
  /\ \E d \in FaceNeighbors(c) : level_subdomain_id(d) # level_subdomain_id(c)

-----------------------------------------------------------------------------
(* MatrixFree: the steps of internal_reinit and compute_dof_info *)

\* #ifdef DEAL_II_WITH_TBB
\* if (tasks_parallel_scheme != none && MultithreadInfo::n_threads() > 1)
EffectiveScheme(requested, with_tbb, n_threads) ==
  IF with_tbb /\ requested # "none" /\ n_threads > 1 THEN requested
                                                     ELSE "none"

\* the loop over the cells left out
ReadLoopSkipped(n) == 0

\* for (counter = 0; counter < n_active_cells; ++counter): the value of
\* counter behind the loop
ReadLoopEnd(n) == n

\* cell_at_subdomain_boundary
cell_at_subdomain_boundary(c) ==
  \/ at_processor_boundary(c)
  \/ (~additional_data.overlap_communication_computation
      /\ task_info.n_procs > 1)

\* Assert(task_info.scheme == none || cell_vectorization_category.empty(), ...)
CategoriesAlwaysAllowed(scheme, category) == TRUE

CategoriesAllowed(scheme, category) == scheme = "none" \/ category = <<>>

\* TaskInfo::create_blocks_serial: the owned cells grouped by category, each
\* group cut into batches when the categories are strict, then the ghosts
create_blocks_serial(N, G, W, fe, strict_categories) ==
  LET owned == Iota(1, N)
      groups == IF fe = <<>> THEN <<owned>>
                ELSE GroupBy(owned, fe, Max(Elements(fe)) + 1)
      owned_batches ==
        IF fe = <<>> \/ ~strict_categories
          THEN BatchSizes(N, W)
          ELSE Flatten([j \in 1..Len(groups) |->
                          BatchSizes(Len(groups[j]), W)])
      all_batches == owned_batches \o BatchSizes(G, W)
  IN [renumbering |-> Flatten(groups) \o Iota(N + 1, N + G),
      irregular_cells |-> all_batches,
      cell_partition_data |-> <<0, Len(owned_batches), Len(all_batches)>>]

\* TaskInfo::make_boundary_cells_divisible: fill the boundary cells up to a
\* multiple of the SIMD width with cells of the interior
make_boundary_cells_divisible(boundary, N, W) ==
  LET fillup_needed == (W - (Len(boundary) % W)) % W
      interior == SelectSeq(Iota(1, N), LAMBDA c : c \notin Elements(boundary))
      added == Part(interior, 1, Min(fillup_needed, Len(interior)))
  IN SelectSeq(Iota(1, N),
               LAMBDA c : c \in Elements(boundary) \cup Elements(added))

\* TaskInfo::initial_setup_blocks_tasks: the boundary cells in one chunk at
\* the front, the interior cells, then the ghosts; the partition markers
\* reserve the middle of the owned batches for the boundary chunk
initial_setup_blocks_tasks(boundary, N, G, W, n_procs) ==
  LET n_macro_cells == Ceil(N, W)
      n_ghost_slots == Ceil(G, W)
      n_macro_boundary_cells == Ceil(Len(boundary), W)
      before == (n_macro_cells - n_macro_boundary_cells) \div 2
      interior == SelectSeq(Iota(1, N), LAMBDA c : c \notin Elements(boundary))
  IN [renumbering |-> boundary \o interior \o Iota(N + 1, N + G),
      irregular_cells |-> BatchSizes(N, W) \o BatchSizes(G, W),
      cell_partition_data |->
        IF n_procs > 1
          THEN <<0, before, before + n_macro_boundary_cells, n_macro_cells,
                 n_macro_cells + n_ghost_slots>>
          ELSE <<0, n_macro_cells, n_macro_cells + n_ghost_slots>>]

\* partition_color: cell_partition_data[1] = 0; [2] = cell_partition_data[3]
PartitionColorData(cpd, n_procs) ==
  IF n_procs > 1 THEN [cpd EXCEPT ![2] = 0, ![3] = cpd[4]] ELSE cpd

start_nonboundary(scheme, n_procs, cpd) ==
  IF scheme = "color"
    THEN IF n_procs > 1
           THEN Min(Ceil(cpd[3] - cpd[2], block_size) * block_size, cpd[4])
           ELSE 0
    ELSE cpd[Len(cpd)]

\* the blocks left as initial_setup_blocks_tasks made them, the cells of
\* different active FE indices side by side
HpRegroupNone(renum, irr, cpd, fe, start, W, N, max_fe_index) ==
  [renumbering |-> renum, irregular_cells |-> irr, cell_partition_data |-> cpd]

\* if (hp_functionality_enabled): the cells before and the cells from
\* start_nonboundary on are each regrouped by active FE index
HpRegroup(renum, irr, cpd, fe, start, W, N, max_fe_index) ==
  LET range1 == Part(renum, 1, Min(start * W, N))
      range2 == Part(renum, start * W + 1, N)
      renumbering_fe_index ==
        GroupBy(range1, fe, max_fe_index) \o GroupBy(range2, fe, max_fe_index)
      K == Len(renumbering_fe_index)
      size(k) == Len(renumbering_fe_index[k])
      n_macro_cells_before[k \in 0..K] ==
        IF k = 0 THEN 0 ELSE n_macro_cells_before[k - 1] + Ceil(size(k), W)
      n_ghost_slots == cpd[Len(cpd)] - cpd[Len(cpd) - 1]
      written(i) ==
        {k \in 1..K : (size(k) \div W) + n_macro_cells_before[k - 1] = i}
      n_irregular == n_macro_cells_before[K] + n_ghost_slots
  IN [renumbering |-> Flatten(renumbering_fe_index)
                        \o Part(renum, N + 1, Len(renum)),
      irregular_cells |->
        IF n_irregular = 0 THEN <<>>
        ELSE [i \in 1..n_irregular |->
                IF written(i - 1) = {} THEN 0
                ELSE size(Max(written(i - 1))) % W],
      cell_partition_data |->
        [cpd EXCEPT ![Len(cpd) - 1] = n_macro_cells_before[K],
                    ![Len(cpd)] = n_macro_cells_before[K] + n_ghost_slots]]

\* fill_index_subrange: the cells that are found in the map
fill_index_subrange(cli) == Elements(cli)

\* fill_connectivity_subrange: the row of connectivity_direct of a cell
fill_connectivity_subrange(cell, map) ==
  {d \in FaceNeighbors(cell) :
     /\ ~at_boundary(cell, d)
     /\ level_subdomain_id(d) = level_subdomain_id(cell)
     /\ d \in map
     /\ d # cell}

\* DynamicSparsityPattern::symmetrize
symmetrize(direct) ==
  <<>> \o [c \in DOMAIN direct |->
            direct[c] \cup {d \in DOMAIN direct : c \in direct[d]}]

\* fill_connectivity_indirect_subrange: the row of connectivity of a block
fill_connectivity_indirect_subrange(block, direct) ==
  direct[block]
    \cup UNION {direct[k] \ {block} : k \in direct[block]}

\* DoFInfo::make_connectivity_graph: cells that share a degree of freedom,
\* which on a row of cells are the face neighbors unless the element is DG
make_connectivity_graph(conn, is_fe_dg) ==
  <<>> \o [c \in DOMAIN conn |->
            conn[c] \cup (IF is_fe_dg THEN {}
                          ELSE {d \in FaceNeighbors(c) : IsOwned(d)})]

\* the cells of batch b
BatchCells(renum, irr, W, b) ==
  Part(renum, CellsBefore(irr, W, b - 1) + 1, CellsBefore(irr, W, b))

\* two batches conflict when an edge of the graph joins a cell of one to a
\* cell of the other
BatchesConflict(conn, B1, B2) ==
  \E c \in Elements(B1), d \in Elements(B2) :
    c \in DOMAIN conn /\ d \in conn[c]

\* TaskInfo::make_thread_graph with every batch of a color the same color
OneColor(conn, batches) == [b \in 1..Len(batches) |-> 0]

\* TaskInfo::make_thread_graph: the color of each batch, the least one that
\* no conflicting batch before it has
Coloring(conn, batches) ==
  LET n == Len(batches)
      Col[b \in 1..n] ==
        LET used == {Col[m] : m \in {m \in 1..(b - 1) :
                        BatchesConflict(conn, batches[m], batches[b])}}
        IN CHOOSE c \in 0..n : c \notin used /\ \A d \in 0..(c - 1) : d \in used
  IN Col

\* TaskInfo::make_thread_graph: the batches in the order of their colors, one
\* partition per color
make_thread_graph(conn, renum, irr, cpd, W, N) ==
  LET n == cpd[Len(cpd) - 1]
      batches == <<>> \o [b \in 1..n |-> BatchCells(renum, irr, W, b)]
      color == <<>> \o Coloring(conn, batches)
      n_colors == IF n = 0 THEN 0 ELSE Max({color[b] : b \in 1..n}) + 1
      of_color(k) == SelectSeq(Iota(1, n), LAMBDA b : color[b] = k - 1)
      order == Flatten([k \in 1..n_colors |-> of_color(k)])
      End[k \in 0..n_colors] ==
        IF k = 0 THEN 0 ELSE End[k - 1] + Len(of_color(k))
  IN [renumbering |-> Flatten([i \in 1..n |-> batches[order[i]]])
                        \o Part(renum, N + 1, Len(renum)),
      irregular_cells |-> [i \in 1..n |-> irr[order[i]]],
      cell_partition_data |-> [k \in 1..(n_colors + 1) |-> End[k - 1]]]

\* irregular_cells.resize(cell_partition_data.back() + n_ghost_slots); ...
\* irregular_cells.back() = task_info.n_ghost_cells % n_lanes
ghost_slots_whole(irr, n_macro_cells, n_ghost_slots, G, W) ==
  Part(irr, 1, n_macro_cells) \o [i \in 1..n_ghost_slots |-> 0]

ghost_slots(irr, n_macro_cells, n_ghost_slots, G, W) ==
  Part(irr, 1, n_macro_cells)
    \o (IF n_ghost_slots = 0 THEN <<>>
        ELSE [i \in 1..n_ghost_slots |->
                IF i = n_ghost_slots THEN G % W ELSE 0])

\* std::sort(sorted_renumbering); Assert(sorted_renumbering[i] == i)
IsPermutation(renum, n) ==
  /\ Len(renum) = n
  /\ \A c \in 1..n : \E i \in 1..n : renum[i] = c

\* the final loop of compute_dof_info: the batches of cell_level_index, the
\* lanes a batch does not fill repeat its last cell
\* the lanes of a batch taken as the next W cells of the renumbering, the
\* padding lanes not held at the last cell of the batch
perform_renumbering_unclamped(old, renum, irr, W, n_batches) ==
  Flatten([b \in 1..n_batches |->
             LET position_cell == CellsBefore(irr, W, b - 1)
             IN [j \in 1..W |->
                   old[renum[Min(position_cell + j, Len(renum))]]]])

\* the batches written without their padding lanes
perform_renumbering_no_padding(old, renum, irr, W, n_batches) ==
  Flatten([b \in 1..n_batches |->
             LET n_comp == LaneCount(irr[b], W)
                 position_cell == CellsBefore(irr, W, b - 1)
             IN [j \in 1..n_comp |-> old[renum[position_cell + j]]]])

perform_renumbering(old, renum, irr, W, n_batches) ==
  Flatten([b \in 1..n_batches |->
             LET n_comp == LaneCount(irr[b], W)
                 position_cell == CellsBefore(irr, W, b - 1)
             IN [j \in 1..W |-> old[renum[position_cell + Min(j, n_comp)]]]])

\* the object after MatrixFree()
Constructed ==
  /\ additional_data = DefaultData
  /\ setup_pc = "constructed"
  /\ task_info = ClearedTaskInfo
  /\ cell_level_index = <<>>
  /\ cell_level_index_end_local = 0
  /\ cell_active_fe_index = <<>>
  /\ counter = 0
  /\ subdomain_boundary_cells = <<>>
  /\ ghosts_assigned = FALSE
  /\ renumbering = <<>>
  /\ irregular_cells = <<>>
  /\ connectivity = <<>>
  /\ indices_are_initialized = FALSE
  /\ mapping_is_initialized = FALSE
  /\ setup_error = "none"

-----------------------------------------------------------------------------
(* MappingQGeneric::fill_fe_values: bounds and inputs *)

MaxRequested == 1
MaxPoints == 1

\* the threshold 1e-12 * (diameter / sqrt(dim))^dim on the scale of the
\* determinants of the model
DistortionThreshold == 1

\* negative, zero, positive but not above the threshold, regular
DeterminantValues == (0 - 1)..(DistortionThreshold + 1)
RegularDeterminant == DistortionThreshold + 1

UpdateFlags ==
  {"update_quadrature_points", "update_contravariant_transformation",
   "update_covariant_transformation", "update_volume_elements",
   "update_JxW_values", "update_normal_vectors", "update_boundary_forms",
   "update_jacobians", "update_inverse_jacobians", "update_jacobian_grads",
   "update_jacobian_pushed_forward_grads", "update_jacobian_2nd_derivatives",
   "update_jacobian_pushed_forward_2nd_derivatives",
   "update_jacobian_3rd_derivatives",
   "update_jacobian_pushed_forward_3rd_derivatives"}

\* CellSimilarity::Similarity
Similarities == {"none", "translation", "inverted_translation",
                 "invalid_next_cell"}

\* the instantiations fill_fe_values tells apart: dim == 1, dim > 1, and
\* codimension one
FillInstantiations == {<<1, 1>>, <<2, 2>>, <<1, 2>>}

\* the flags a caller asks for
RequestedFlags ==
  {F \in SUBSET UpdateFlags : Cardinality(F) <= MaxRequested}

\* a pass without the rule for the contravariant transformation
RequiresStepFourRules(out) ==
  LET a == IF out \cap {"update_JxW_values", "update_normal_vectors"} # {}
             THEN out \cup {"update_boundary_forms"} ELSE out
      b == IF a \cap {"update_covariant_transformation", "update_JxW_values",
                      "update_jacobians", "update_jacobian_grads",
                      "update_boundary_forms", "update_normal_vectors"} # {}
             THEN a \cup {"update_contravariant_transformation"} ELSE a
      c == IF b \cap {"update_inverse_jacobians",
                      "update_jacobian_pushed_forward_grads",
                      "update_jacobian_pushed_forward_2nd_derivatives",
                      "update_jacobian_pushed_forward_3rd_derivatives"} # {}
             THEN b \cup {"update_covariant_transformation"} ELSE b
  IN IF "update_normal_vectors" \in c
       THEN c \cup {"update_volume_elements"} ELSE c

\* one pass of the loop of requires_update_flags
RequiresStep(out) ==
  LET a == IF out \cap {"update_JxW_values", "update_normal_vectors"} # {}
             THEN out \cup {"update_boundary_forms"} ELSE out
      b == IF a \cap {"update_covariant_transformation", "update_JxW_values",
                      "update_jacobians", "update_jacobian_grads",
                      "update_boundary_forms", "update_normal_vectors"} # {}
             THEN a \cup {"update_contravariant_transformation"} ELSE a
      c == IF b \cap {"update_inverse_jacobians",
                      "update_jacobian_pushed_forward_grads",
                      "update_jacobian_pushed_forward_2nd_derivatives",
                      "update_jacobian_pushed_forward_3rd_derivatives"} # {}
             THEN b \cup {"update_covariant_transformation"} ELSE b
      d == IF "update_contravariant_transformation" \in c
             THEN c \cup {"update_volume_elements"} ELSE c
  IN IF "update_normal_vectors" \in d
       THEN d \cup {"update_volume_elements"} ELSE d

\* MappingQGeneric::requires_update_flags: for (i = 0; i < 5; ++i)
requires_update_flags(in) ==
  RequiresStep(RequiresStep(RequiresStep(RequiresStep(RequiresStep(in)))))

\* a mapping that trusts the similarity of the vertices for every degree
KeepsCellSimilarity(degree, similarity) == similarity

\* computed_cell_similarity =
\*   (polynomial_degree == 1 ? cell_similarity : CellSimilarity::none)
ComputedCellSimilarity(degree, similarity) ==
  IF degree = 1 THEN similarity ELSE "none"

\* an update that is made for a translated cell as well
NeverSkipped(similarity) == TRUE

\* if (cell_similarity != CellSimilarity::translation)
Recomputed(similarity) == similarity # "translation"

\* what "if (update_flags & flag) if (cell_similarity != translation)" writes
MaybeUpdate(similarity, flags, flag, quantity) ==
  IF flag \in flags /\ Recomputed(similarity) THEN {quantity} ELSE {}

\* maybe_compute_q_points
maybe_compute_q_points(flags) ==
  IF "update_quadrature_points" \in flags THEN {"quadrature_points"} ELSE {}

\* maybe_update_Jacobians: contravariant, covariant and volume_elements
maybe_update_Jacobians(similarity, flags) ==
  MaybeUpdate(similarity, flags, "update_contravariant_transformation",
              "contravariant")
    \cup MaybeUpdate(similarity, flags, "update_covariant_transformation",
                     "covariant")
    \cup MaybeUpdate(similarity, flags, "update_volume_elements",
                     "volume_elements")

\* maybe_update_jacobian_grads
maybe_update_jacobian_grads(similarity, flags) ==
  MaybeUpdate(similarity, flags, "update_jacobian_grads", "jacobian_grads")

\* EvaluationFlags of the tensor product evaluation
EvaluationFlag(similarity, flags) ==
  (IF "update_quadrature_points" \in flags THEN {"values"} ELSE {})
    \cup (IF Recomputed(similarity)
               /\ "update_contravariant_transformation" \in flags
            THEN {"gradients"} ELSE {})
    \cup (IF Recomputed(similarity) /\ "update_jacobian_grads" \in flags
            THEN {"hessians"} ELSE {})

\* maybe_update_q_points_Jacobians_and_grads_tensor; collocation: the element
\* is tensor_symmetric_collocation
maybe_update_q_points_Jacobians_and_grads_tensor(sim, flags, collocation) ==
  LET similarity == sim
      evaluation_flag == EvaluationFlag(similarity, flags)
  IN IF evaluation_flag = {"values"} /\ collocation
       THEN {"quadrature_points"}
       ELSE (IF "values" \in evaluation_flag
               THEN {"quadrature_points"} ELSE {})
            \cup (IF "gradients" \in evaluation_flag
                    THEN {"contravariant"} ELSE {})
            \cup MaybeUpdate(similarity, flags,
                             "update_covariant_transformation", "covariant")
            \cup MaybeUpdate(similarity, flags, "update_volume_elements",
                             "volume_elements")
            \cup (IF "hessians" \in evaluation_flag
                    THEN {"jacobian_grads"} ELSE {})

\* maybe_update_jacobian_pushed_forward_grads, _2nd_derivatives,
\* _pushed_forward_2nd_derivatives, _3rd_derivatives and
\* _pushed_forward_3rd_derivatives
maybe_update_higher_derivatives(similarity, flags) ==
  UNION {MaybeUpdate(similarity, flags, "update_" \o q, q) :
           q \in {"jacobian_pushed_forward_grads", "jacobian_2nd_derivatives",
                  "jacobian_pushed_forward_2nd_derivatives",
                  "jacobian_3rd_derivatives",
                  "jacobian_pushed_forward_3rd_derivatives"}}

\* the first part of fill_fe_values: what it writes before the JxW values
UpdateGeometryWrites(d, path, similarity, flags) ==
  (IF d > 1 /\ path # "general"
     THEN maybe_update_q_points_Jacobians_and_grads_tensor(
            similarity, flags, path = "collocation")
     ELSE maybe_compute_q_points(flags)
            \cup maybe_update_Jacobians(similarity, flags)
            \cup maybe_update_jacobian_grads(similarity, flags))
    \cup maybe_update_higher_derivatives(similarity, flags)

NotWritten == [written |-> FALSE, value |-> 0]
Value(v) == [written |-> TRUE, value |-> v]

\* a check for distorted cells that lets a determinant of zero through
DistortedNegative(determinant) == determinant < 0

\* Assert(det > 1e-12 * fixed_power<dim>(diameter / sqrt(dim))) fails
Distorted(determinant) == ~(determinant > DistortionThreshold)

\* the loop over the quadrature points that writes the JxW values: with
\* assertions it ends at the first point whose determinant is not above the
\* threshold
fill_JxW_values(d, sd, similarity, flags, dets, assertions) ==
  LET n_q_points == Len(dets)
      requested == flags \cap {"update_normal_vectors", "update_JxW_values"}
                     # {}
      loops == requested /\ Recomputed(similarity)
      bad == {i \in 1..n_q_points : Distorted(dets[i])}
      stop == IF loops /\ assertions /\ d = sd /\ bad # {}
                THEN CHOOSE i \in bad : \A j \in bad : i <= j
                ELSE n_q_points + 1
  IN [error |-> IF stop <= n_q_points THEN "ExcDistortedMappedCell"
                                      ELSE "none",
      JxW_values |-> [i \in 1..n_q_points |->
                        IF loops /\ i < stop THEN Value(dets[i])
                                             ELSE NotWritten],
      written |->
        (IF loops /\ stop > 1 THEN {"JxW_values"} ELSE {})
          \cup (IF loops /\ d # sd /\ "update_normal_vectors" \in flags
                  THEN {"normal_vectors"} ELSE {})]

\* output_data.jacobians[point] = data.contravariant[point]
copy_jacobians(similarity, flags) ==
  MaybeUpdate(similarity, flags, "update_jacobians", "jacobians")

\* output_data.inverse_jacobians[point] = data.covariant[point].transpose():
\* the inverse of a matrix of determinant zero is not finite
copy_inverse_jacobians(similarity, flags, dets) ==
  [i \in 1..Len(dets) |->
     IF "update_inverse_jacobians" \in flags /\ Recomputed(similarity)
       THEN IF dets[i] = 0 THEN "nonfinite" ELSE "finite"
       ELSE "unwritten"]

\* no call of fill_fe_values is under way
IdleFill ==
  /\ fill_pc = "idle"
  /\ update_each = {}
  /\ cell_similarity = "none"
  /\ computed_cell_similarity = "none"
  /\ evaluation_path = "general"
  /\ determinants = <<>>
  /\ JxW_sized = TRUE
  /\ quantities = {}
  /\ JxW_values = <<>>
  /\ inverse_jacobians = <<>>
  /\ fill_error = "none"
  /\ fill_result = "none"

\* no call of the closed form is under way
IdleFormula ==
  /\ formula_pc = "idle"
  /\ vertices = <<>>
  /\ point = <<>>
  /\ formula_result = <<>>

-----------------------------------------------------------------------------
(* internal::MappingQ1::transform_real_to_unit_cell, dim = 2: the closed
   form.  Vertices and points lie on the integer grid, so a, b, c and the
   discriminant are exact; the square root and the quotients are rounded to
   1 / Resolution, as the code rounds them to long double.  A quotient by
   zero is not finite. *)

\* the largest coordinate of a point to invert
MaxCoord == 2

\* numbers after the square root: multiples of 1 / Resolution
Resolution == 100

NaN == [kind |-> "nan", v |-> 0]
Inf(sign) == [kind |-> "inf", v |-> sign]
IsFinite(e) == e.kind = "finite"

Abs(n) == IF n < 0 THEN 0 - n ELSE n

\* n / d rounded to the nearest integer, d # 0
RoundedQuot(n, d) ==
  LET nn == IF d < 0 THEN 0 - n ELSE n
      dd == Abs(d)
  IN (2 * nn + dd) \div (2 * dd)

\* the quotient n / d of two numbers of one scale
Divide(n, d) ==
  IF d = 0 THEN IF n = 0 THEN NaN ELSE Inf(Sign(n))
           ELSE Finite(RoundedQuot(n * Resolution, d))

\* e * k for an integer k
Times(e, k) ==
  CASE e.kind = "finite" -> Finite(e.v * k)
    [] e.kind = "inf" -> IF k = 0 THEN NaN ELSE Inf(e.v * Sign(k))
    [] OTHER -> NaN

\* e + f
Plus(e, f) ==
  CASE e.kind = "nan" \/ f.kind = "nan" -> NaN
    [] e.kind = "inf" /\ f.kind = "inf" -> IF e.v = f.v THEN e ELSE NaN
    [] e.kind = "inf" -> e
    [] f.kind = "inf" -> f
    [] OTHER -> Finite(e.v + f.v)

\* e / f
Over(e, f) ==
  CASE e.kind = "nan" \/ f.kind = "nan" -> NaN
    [] e.kind = "inf" /\ f.kind = "inf" -> NaN
    [] e.kind = "inf" -> Inf(e.v * (IF f.v < 0 THEN 0 - 1 ELSE 1))
    [] f.kind = "inf" -> Finite(0)
    [] OTHER -> Divide(e.v, f.v)

\* std::abs(e) < std::abs(f): false as soon as one of them is NaN
AbsLess(e, f) ==
  CASE e.kind = "nan" \/ f.kind = "nan" -> FALSE
    [] e.kind = "inf" -> FALSE
    [] f.kind = "inf" -> TRUE
    [] OTHER -> Abs(e.v) < Abs(f.v)

\* the floor of the square root of n >= 0, by bisection
RECURSIVE SqrtBetween(_, _, _)
SqrtBetween(n, lo, hi) ==
  IF hi - lo <= 1 THEN lo
  ELSE LET mid == (lo + hi) \div 2
       IN IF mid * mid <= n THEN SqrtBetween(n, mid, hi)
                            ELSE SqrtBetween(n, lo, mid)

\* std::sqrt(discriminant) in units of 1 / Resolution
Sqrt(discriminant) ==
  SqrtBetween(discriminant * Resolution * Resolution, 0,
              (discriminant + 1) * Resolution)

\* a, b and c of the quadratic equation for eta
QuadraticCoefficients(vs, q) ==
  LET x == q[1]       y == q[2]
      x0 == vs[1][1]  y0 == vs[1][2]
      x1 == vs[2][1]  y1 == vs[2][2]
      x2 == vs[3][1]  y2 == vs[3][2]
      x3 == vs[4][1]  y3 == vs[4][2]
  IN [a |-> (x1 - x3) * (y0 - y2) - (x0 - x2) * (y1 - y3),
      b |-> (0 - (x0 - x1 - x2 + x3)) * y + (x - 2 * x1 + x3) * y0
              - (x - 2 * x0 + x2) * y1 - (x - x1) * y2 + (x - x0) * y3,
      c |-> (x0 - x1) * y - (x - x1) * y0 + (x - x0) * y1]

Discriminant(k) == k.b * k.b - 4 * k.a * k.c

\* AssertThrow(discriminant >= 0.0, ...): a discriminant of zero let through
DiscriminantNotNegative(discriminant) == discriminant >= 0

\* AssertThrow(discriminant > 0.0, ExcTransformationFailed())
DiscriminantPositive(discriminant) == discriminant > 0

\* std::abs(a) < 1e-8 * std::abs(b)
NearParallelogram(a, b) ==
  IF a = 0 THEN b # 0 ELSE (Abs(b) - 1) \div Abs(a) >= 10 ^ 8

\* eta1 and eta2
Roots(k) ==
  LET sqrt_discriminant == Sqrt(Discriminant(k))
      bR == k.b * Resolution
  IN IF k.b # 0 /\ Abs(bR) = sqrt_discriminant
       THEN <<Divide(0 - k.c, k.b), Divide(0 - k.c, k.b)>>
     ELSE IF NearParallelogram(k.a, k.b)
       THEN <<Divide(2 * k.c * Resolution, 0 - bR - sqrt_discriminant),
              Divide(2 * k.c * Resolution, 0 - bR + sqrt_discriminant)>>
     ELSE <<Divide(0 - bR - sqrt_discriminant, 2 * k.a * Resolution),
            Divide(0 - bR + sqrt_discriminant, 2 * k.a * Resolution)>>

\* eta - 0.5
FromCenter(eta) == Plus(Times(eta, 2), Finite(0 - Resolution))

\* pick the one closer to the center of the cell
CloserRoot(eta1, eta2) ==
  IF AbsLess(FromCenter(eta1), FromCenter(eta2)) THEN eta1 ELSE eta2

\* subexpr0 and subexpr1: -eta * u2 + u0 * (eta - 1), u the x or the y
\* coordinate (d = 1 or 2) of the vertices
Subexpr(vs, d, eta) ==
  Plus(Times(eta, 0 - vs[3][d]),
       Times(Plus(eta, Finite(0 - Resolution)), vs[1][d]))

\* xi_denominator0 and xi_denominator1
XiDenominator(vs, d, eta) ==
  Plus(Plus(Times(eta, vs[4][d]),
            Times(Plus(eta, Finite(0 - Resolution)), 0 - vs[2][d])),
       Subexpr(vs, d, eta))

\* max_x and max_y
MaxAbs(vs, d) == Max({Abs(vs[i][d]) : i \in 1..4})

\* std::abs(xi_denominator) > 1e-10 * max
AboveThreshold(denominator, max) ==
  CASE denominator.kind = "nan" -> FALSE
    [] denominator.kind = "inf" -> TRUE
    [] OTHER -> Abs(denominator.v)
                  > ((Resolution * max) \div (10 ^ 5)) \div (10 ^ 5)

\* (x + subexpr0) / xi_denominator0 and (subexpr1 + y) / xi_denominator1
Xi(vs, q, d, eta) ==
  Over(Plus(Finite(q[d] * Resolution), Subexpr(vs, d, eta)),
       XiDenominator(vs, d, eta))

Thrown(exc) == [outcome |-> exc, xi |-> NaN, eta |-> NaN]
Unit(first, second) == [outcome |-> "returned", xi |-> first, eta |-> second]

\* transform_real_to_unit_cell(vertices, p) for dim = 2
transform_real_to_unit_cell_2d(vs, q) ==
  LET k == QuadraticCoefficients(vs, q)
  IN IF ~DiscriminantPositive(Discriminant(k))
       THEN Thrown("ExcTransformationFailed")
       ELSE LET roots == Roots(k)
                eta == CloserRoot(roots[1], roots[2])
            IN IF AboveThreshold(XiDenominator(vs, 1, eta), MaxAbs(vs, 1))
                 THEN Unit(Xi(vs, q, 1, eta), eta)
               ELSE IF AboveThreshold(XiDenominator(vs, 2, eta),
                                      MaxAbs(vs, 2))
                 THEN Unit(Xi(vs, q, 2, eta), eta)
               ELSE Thrown("ExcTransformationFailed")


\* the quadratic formula has not been called in this query
NotCalled == [outcome |-> "not_called", xi |-> NaN, eta |-> NaN]

\* the cells transform_real_to_unit_cell is asked about: the unit square and
\* the quadrilateral with vertex 3 reflected through vertex 0
Quadrilaterals ==
  {<<<<0, 0>>, <<1, 0>>, <<0, 1>>, v3>> : v3 \in {<<1, 1>>, <<0 - 1, 0 - 1>>}}

\* what the quadratic formula gives on these cells for the points of the grid
ClosedFormResults ==
  {transform_real_to_unit_cell_2d(c, q) :
     c \in Quadrilaterals,
     q \in ((0 - MaxCoord)..MaxCoord) \X ((0 - MaxCoord)..MaxCoord)}

\* -eps <= c && c <= 1 + eps with eps = 1e-15, which is below 1 / Resolution;
\* false for a coordinate that is not finite
InUnitInterval(c) == IsFinite(c) /\ 0 <= c.v /\ c.v <= Resolution

\* a test of the first coordinate only
InsideReferenceCellFirst(r) == InUnitInterval(r.xi)

\* lines 2242-2243: the computed point lies inside the reference cell
InsideReferenceCell(r) == InUnitInterval(r.eta) /\ InUnitInterval(r.xi)

-----------------------------------------------------------------------------
(* MatrixFree: the pool of constraint coefficients *)

\* the coefficient vectors of a constrained degree of freedom have at most
\* MaxEntries entries; at most MaxReads constrained degrees of freedom are
\* read in one setup
MaxEntries == 1
MaxReads == 2

Coefficients == {1, 2}
CoefficientVectors == UNION {[1..n -> Coefficients] : n \in 0..MaxEntries}

\* ConstraintValues::insert_entries: the map from coefficient vectors to
\* their index, held as the sequence of its keys in the order of the indices
insert_entries(map, entries) ==
  IF entries \in Elements(map) THEN map ELSE Append(map, entries)

\* std::vector::resize(n, value) that leaves a longer vector as it is
ResizeGrowOnly(s, n, value) ==
  IF Len(s) >= n THEN s ELSE s \o [i \in 1..(n - Len(s)) |-> value]

\* std::vector::resize(n, value)
Resize(s, n, value) ==
  IF Len(s) >= n THEN SubSeq(s, 1, n)
  ELSE s \o [i \in 1..(n - Len(s)) |-> value]

\* initialize_indices: set constraint pool from the std::map
set_constraint_pool(map, old_row_index) ==
  LET constraints == map
      length == Len(Flatten(constraints))
      data == Flatten(constraints)
      RowIndex[i \in 0..Len(constraints)] ==
        IF i = 0 THEN Resize(old_row_index, 1, 0)
        ELSE Append(RowIndex[i - 1],
                    Len(Flatten(SubSeq(constraints, 1, i))))
  IN [constraint_pool_data |-> data,
      constraint_pool_row_index |-> RowIndex[Len(constraints)],
      length |-> length]

\* the comparison of the keys of constraint_values.constraints: the shorter
\* vector first, vectors of one length by their first different entry
KeyLess(a, b) ==
  \/ Len(a) < Len(b)
  \/ /\ Len(a) = Len(b)
     /\ \E i \in 1..Len(a) :
          a[i] < b[i] /\ \A j \in 1..(i - 1) : a[j] = b[j]

\* for (const auto &it : constraint_values.constraints): the keys in the
\* order the std::map iterates over them
KeyOrder(map) ==
  [i \in 1..Len(map) |->
     CHOOSE k \in Elements(map) :
       Cardinality({l \in Elements(map) : KeyLess(l, k)}) = i - 1]

\* compute_dof_info: the constraint_pool_row_index it hands to
\* DoFInfo::reorder_cells
reorder_cells_row_index(map) ==
  LET keys == KeyOrder(map)
      RowIndex[i \in 0..Len(keys)] ==
        IF i = 0 THEN <<0>>
        ELSE Append(RowIndex[i - 1],
                    RowIndex[i - 1][Len(RowIndex[i - 1])] + Len(keys[i]))
  IN RowIndex[Len(keys)]

\* no setup has touched the pool
EmptyPool ==
  /\ pool_pc = "idle"
  /\ last_call = "none"
  /\ entries_read = {}
  /\ n_entries_read = 0
  /\ rows_before = 0
  /\ constraint_values = <<>>
  /\ constraint_pool_data = <<>>
  /\ constraint_pool_row_index = <<>>

\* a coarse triangulation nobody has set up a MatrixFree object on
CoarseMesh ==
  /\ resolve_pc = "building"
  /\ refined = {}
  /\ not_owned = {}
  /\ level_not_owned = {}
  /\ distributed = FALSE
  /\ mg_level = invalid_unsigned_int

\* no tasks have been started
IdleGraph ==
  /\ graph_pc = "idle"
  /\ tasks = <<>>
  /\ cell_map = <<>>
  /\ connectivity_direct = <<>>
  /\ row_writers = <<>>
  /\ inserted = {}

\* requires_update_flags: nothing has been called
IdleFlags ==
  /\ flags_pc = "idle"
  /\ first_in = {}
  /\ flags_in = {}
  /\ flags_out = {}
  /\ flags_i = 0
  /\ on_result = FALSE

\* one InternalData object and the cells it is used on: nothing has been called
FreshData ==
  /\ mapping_support_points = <<>>
  /\ cell_of_current_support_points = <<>>
  /\ moved = <<>>
  /\ fill_call = "none"
  /\ fill_cell = <<>>
  /\ points_used = <<>>
  /\ points_of_cell = <<>>

\* one call of create_cell_subrange_hp_by_index: nothing has been called
IdleRange ==
  /\ range_pc = "idle"
  /\ active_fe_indices = <<>>
  /\ range = <<0, 0>>
  /\ fe_index = 0
  /\ return_range = <<0, 0>>
  /\ range_error = "none"

\* the initial guess of the inverse transformations: nothing has been called
IdleGuess ==
  /\ guess_pc = "idle"
  /\ guess_call = "none"
  /\ real_point = <<>>
  /\ support_shift = 0
  /\ initial_guess = 0
  /\ handed_to_newton = <<>>

IdlePastGraph == IdleFlags /\ FreshData /\ IdleRange /\ IdleGuess

IdlePastTree == IdleGraph /\ IdlePastGraph

IdleExt == CoarseMesh /\ IdlePastTree

-----------------------------------------------------------------------------
(* MappingQGeneric: the actions *)

\* no query is under way
IdleQuery ==
  /\ displacement = 0
  /\ xi = 0
  /\ p = <<>>
  /\ pc = "idle"
  /\ p_unit = Abstract
  /\ det = 1
  /\ newton_iteration = 0
  /\ step_length = FullStep
  /\ trials = <<>>
  /\ loop = 0
  /\ outcome = "none"
  /\ via = "none"
  /\ closed_form = NotCalled
  /\ internal_calls = 0

InvInit ==
  /\ \E pr \in Instantiations : dim = pr[1] /\ spacedim = pr[2]
  /\ polynomial_degree \in 1..MaxDegree
  /\ preserves \in BOOLEAN
  /\ debug \in BOOLEAN
  /\ geom \in (IF dim = 1 THEN {"affine", "general"} ELSE {"general"})
  /\ inverted \in (IF geom = "affine" THEN BOOLEAN ELSE {FALSE})
  /\ IdleQuery
  /\ env = [n_cells |-> 1, n_lanes |-> 1, n_procs |-> 1, fes_size |-> 1,
            periodic |-> FALSE]
  /\ Constructed
  /\ IdleFill
  /\ IdleFormula
  /\ EmptyPool
  /\ IdleExt

config_vars == <<dim, spacedim, polynomial_degree, preserves, debug, geom,
                 inverted>>
newton_vars == <<det, newton_iteration, step_length, trials, loop>>

\* the test program moves vertex 0 of the cell between two round trips
DisplaceVertex ==
  /\ pc = "idle"
  /\ geom = "affine"
  /\ displacement < MaxDisplace
  /\ displacement' = displacement + 1
  /\ UNCHANGED <<config_vars, newton_vars, xi, p, pc, p_unit, outcome, via>>
  /\ UNCHANGED <<closed_form, internal_calls, setup_vars, aux_vars>>

\* transform_unit_to_real_cell(cell, xi)
transform_unit_to_real_cell ==
  /\ pc = "idle"
  /\ \E x \in (IF geom = "affine" THEN 0..Scale ELSE {0}) :
       /\ xi' = x
       /\ p' = IF geom = "affine"
                 THEN compute_mapped_location_of_point(x).first
                 ELSE <<>>
  /\ pc' = "mapped"
  /\ UNCHANGED <<config_vars, newton_vars, displacement, p_unit, outcome, via>>
  /\ UNCHANGED <<closed_form, internal_calls, setup_vars, aux_vars>>

Return(pt, how) ==
  /\ p_unit' = pt
  /\ outcome' = "point"
  /\ via' = how
  /\ pc' = "done"

Throw(exc, how) ==
  /\ outcome' = exc
  /\ via' = how
  /\ pc' = "done"
  /\ UNCHANGED p_unit

\* transform_real_to_unit_cell: the exact formulas of Q1 mappings
ExactFormula ==
  /\ pc = "mapped"
  /\ IF ~UseExactFormula
       THEN pc' = "initial_guess"
            /\ UNCHANGED <<p_unit, outcome, via, closed_form>>
     ELSE IF dim = 1
       THEN IF spacedim = 1
              THEN Return(IF geom = "affine"
                            THEN Finite(transform_real_to_unit_cell_1d(p))
                            ELSE Abstract,
                          "closed_form")
                   /\ UNCHANGED closed_form
              ELSE pc' = "initial_guess"
                   /\ UNCHANGED <<p_unit, outcome, via, closed_form>>
     ELSE \* dim = 2: the quadratic formula throws, or its point is taken
          \* only if it lies inside the reference cell
          \E r \in ClosedFormResults :
            /\ closed_form' = r
            /\ IF r.outcome = "returned" /\ InsideReferenceCell(r)
                 THEN Return(Finite(<<r.xi.v, r.eta.v>>), "closed_form")
                 ELSE pc' = "initial_guess"
                      /\ UNCHANGED <<p_unit, outcome, via>>
  /\ UNCHANGED <<config_vars, newton_vars, displacement, xi, p>>
  /\ UNCHANGED <<internal_calls, setup_vars, aux_vars>>

\* transform_real_to_unit_cell: the initial value of the iteration
InitialGuess ==
  /\ pc = "initial_guess"
  /\ LET affine_guess ==
           IF geom = "affine"
             THEN Finite(real_to_unit_cell_affine_approximation(p))
             ELSE Abstract
         mid_point == IF geom = "affine" THEN Finite(Scale \div 2)
                                         ELSE Abstract
         initial_p_unit == IF preserves THEN affine_guess ELSE mid_point
     IN IF preserves /\ dim = 1 /\ polynomial_degree = 1
          THEN Return(initial_p_unit, "affine")
          ELSE /\ p_unit' = IF initial_p_unit.kind = "finite"
                              THEN Finite(project_to_unit_cell(initial_p_unit.v))
                              ELSE initial_p_unit
               /\ pc' = "internal"
               /\ UNCHANGED <<outcome, via>>
  /\ UNCHANGED <<config_vars, newton_vars, displacement, xi, p>>
  /\ UNCHANGED <<closed_form, internal_calls, setup_vars, aux_vars>>

\* transform_real_to_unit_cell_internal: the specialization that is called
Internal ==
  /\ pc = "internal"
  /\ CASE InternalPath = "newton" ->
            pc' = "newton_start" /\ UNCHANGED <<p_unit, outcome, via>>
       [] InternalPath = "codim1" ->
            pc' = "codim1" /\ UNCHANGED <<p_unit, outcome, via>>
       [] OTHER ->
            \* MappingQGeneric<1,3>: Assert(false, ExcNotImplemented()); return {};
            IF debug
              THEN Throw("ExcNotImplemented", "not_implemented")
              ELSE /\ p_unit' = DefaultPoint
                   /\ via' = "not_implemented"
                   /\ pc' = "returned"
                   /\ UNCHANGED outcome
  /\ newton_iteration' = 0
  /\ loop' = 0
  /\ trials' = <<>>
  /\ UNCHANGED <<config_vars, det, step_length, displacement, xi, p>>
  /\ internal_calls' = internal_calls + 1
  /\ UNCHANGED <<closed_form, setup_vars, aux_vars>>

\* do_transform_real_to_unit_cell_internal: the first evaluation and the
\* early exit
NewtonStart ==
  /\ pc = "newton_start"
  /\ \E d \in Determinant(p_unit.v) : det' = d
  /\ \E e \in EarlyOut(p_unit.v) :
       IF e THEN pc' = "returned" /\ via' = "early_out"
            ELSE pc' = "newton_solve" /\ UNCHANGED via
  /\ newton_iteration' = 0
  /\ UNCHANGED <<config_vars, step_length, trials, loop, displacement, xi, p,
                 p_unit, outcome>>
  /\ UNCHANGED <<closed_form, internal_calls, setup_vars, aux_vars>>

\* the head of the Newton loop: solve [f'(x)] d = f(x)
NewtonSolve ==
  /\ pc = "newton_solve"
  /\ IF DegenerateJacobian(det)
       THEN /\ p_unit' = invalid_point
            /\ pc' = "returned"
            /\ via' = "newton"
            /\ UNCHANGED <<step_length, trials>>
       ELSE /\ step_length' = FullStep
            /\ trials' = <<>>
            /\ pc' = "line_search"
            /\ UNCHANGED <<p_unit, via>>
  /\ UNCHANGED <<config_vars, det, newton_iteration, loop, displacement, xi,
                 p, outcome>>
  /\ UNCHANGED <<closed_form, internal_calls, setup_vars, aux_vars>>

\* one pass of the line search: evaluate the trial point, then accept it,
\* halve the step length or give up
LineSearch ==
  /\ pc = "line_search"
  /\ LET t == TrialPoint(p_unit.v, step_length)
     IN \E pr \in Progress(p_unit.v, t) :
          /\ trials' = Append(trials, [step |-> step_length, progress |-> pr])
          /\ IF pr
               THEN /\ p_unit' = t
                    /\ \E d \in Determinant(t.v) : det' = d
                    /\ pc' = "newton_count"
                    /\ UNCHANGED <<step_length, via>>
             ELSE IF LineSearchContinues(step_length)
               THEN /\ step_length' = step_length \div 2
                    /\ UNCHANGED <<p_unit, det, pc, via>>
             ELSE /\ p_unit' = invalid_point
                  /\ pc' = "returned"
                  /\ via' = "newton"
                  /\ UNCHANGED <<step_length, det>>
  /\ UNCHANGED <<config_vars, newton_iteration, loop, displacement, xi, p,
                 outcome>>
  /\ UNCHANGED <<closed_form, internal_calls, setup_vars, aux_vars>>

\* the tail of the Newton loop: count the iteration, test the cap, test for
\* convergence (on a straight cell df_inverse is the same at every iterate)
NewtonCount ==
  /\ pc = "newton_count"
  /\ newton_iteration' = newton_iteration + 1
  /\ IF IterationCapExceeded(newton_iteration + 1)
       THEN p_unit' = invalid_point /\ pc' = "returned" /\ via' = "newton"
       ELSE \E c \in Converged(p_unit.v) :
              IF c THEN pc' = "returned" /\ via' = "newton" /\ UNCHANGED p_unit
                   ELSE pc' = "newton_solve" /\ UNCHANGED <<p_unit, via>>
  /\ UNCHANGED <<config_vars, det, step_length, trials, loop, displacement,
                 xi, p, outcome>>
  /\ UNCHANGED <<closed_form, internal_calls, setup_vars, aux_vars>>

\* do_transform_real_to_unit_cell_internal_codim1:
\* while (f.norm() > eps && loop++ < loop_limit) { p_unit -= d; ... }
Codim1Loop ==
  /\ pc = "codim1"
  /\ \E a \in AboveEps(p_unit.v) :
       IF ~a
         THEN pc' = "codim1_exit" /\ UNCHANGED <<loop, p_unit>>
       ELSE IF loop < loop_limit
         THEN /\ loop' = loop + 1
              /\ p_unit' = Codim1Step(p_unit.v)
              /\ UNCHANGED pc
       ELSE /\ loop' = loop + 1
            /\ pc' = "codim1_exit"
            /\ UNCHANGED p_unit
  /\ UNCHANGED <<config_vars, det, newton_iteration, step_length, trials,
                 displacement, xi, p, outcome, via>>
  /\ UNCHANGED <<closed_form, internal_calls, setup_vars, aux_vars>>

\* AssertThrow(loop < loop_limit, ExcTransformationFailed()); return p_unit;
Codim1Exit ==
  /\ pc = "codim1_exit"
  /\ IF loop < loop_limit
       THEN pc' = "returned" /\ via' = "codim1" /\ UNCHANGED <<p_unit, outcome>>
       ELSE Throw("ExcTransformationFailed", "codim1")
  /\ UNCHANGED <<config_vars, newton_vars, displacement, xi, p>>
  /\ UNCHANGED <<closed_form, internal_calls, setup_vars, aux_vars>>

\* transform_real_to_unit_cell: the test for the infinity sentinel
SentinelCheck ==
  /\ pc = "returned"
  /\ IF IsSentinel(p_unit)
       THEN Throw("ExcTransformationFailed", via)
       ELSE Return(p_unit, via)
  /\ UNCHANGED <<config_vars, newton_vars, displacement, xi, p>>
  /\ UNCHANGED <<closed_form, internal_calls, setup_vars, aux_vars>>

\* the caller takes the result and is ready for the next query
NextQuery ==
  /\ pc = "done"
  /\ pc' = "idle"
  /\ xi' = 0
  /\ p' = <<>>
  /\ p_unit' = Abstract
  /\ det' = 1
  /\ newton_iteration' = 0
  /\ step_length' = FullStep
  /\ trials' = <<>>
  /\ loop' = 0
  /\ outcome' = "none"
  /\ via' = "none"
  /\ UNCHANGED <<config_vars, displacement>>
  /\ closed_form' = NotCalled
  /\ internal_calls' = 0
  /\ UNCHANGED <<setup_vars, aux_vars>>

InvNext ==
  \/ DisplaceVertex
  \/ transform_unit_to_real_cell
  \/ ExactFormula
  \/ InitialGuess
  \/ Internal
  \/ NewtonStart
  \/ NewtonSolve
  \/ LineSearch
  \/ NewtonCount
  \/ Codim1Loop
  \/ Codim1Exit
  \/ SentinelCheck
  \/ NextQuery

SpecInverse == InvInit /\ [][InvNext]_vars

-----------------------------------------------------------------------------
(* Claims about the inverse map *)

ImplementedPaths == {"closed_form", "affine", "newton", "early_out", "codim1"}

\* C4: every finished call of transform_real_to_unit_cell either returns a
\* point produced by a closed-form solve or by a converged iteration, or it
\* has thrown ExcTransformationFailed; it never hands out the infinity
\* sentinel or a default point.
C4_PointOrTransformationFailed ==
  pc = "done" =>
    \/ outcome = "ExcTransformationFailed"
    \/ outcome = "point" /\ via \in ImplementedPaths /\ ~IsSentinel(p_unit)

\* C5: a run of the dim == spacedim Newton iteration performs at most
\* newton_iteration_limit = 20 iterations and ends either with a point or
\* with the failure outcome.
C5_AtMostTwentyIterations ==
  /\ newton_iteration <= newton_iteration_limit
  /\ (pc = "done" /\ via \in {"newton", "early_out"})
       => outcome \in {"point", "ExcTransformationFailed"}

LastTrial == trials[Len(trials)]

\* C6 (as stated): the line search tries 1, 1/2, 1/4, ... and no trial point
\* with a step length below 0.05 is evaluated or accepted.
C6_NoTrialBelowThreshold ==
  \A i \in 1..Len(trials) : trials[i].step >= StepThreshold

\* C6 (amended): the line search tries the step lengths 1, 1/2, 1/4, ... in
\* this order and stops at the first trial that reduces the residual; it
\* goes on halving only after a trial whose step length is above 0.05, so
\* the last step length it can evaluate (and accept) is 1/32, and it gives
\* up only after a trial of step length at most 0.05 has made no progress.
C6_LineSearchOrder ==
  /\ Len(trials) >= 1 => trials[1].step = FullStep
  /\ \A i \in 1..(Len(trials) - 1) :
       /\ trials[i + 1].step * 2 = trials[i].step
       /\ ~trials[i].progress
       /\ trials[i].step > StepThreshold
  /\ \A i \in 1..Len(trials) : trials[i].step * 32 >= FullStep
  /\ pc = "newton_count" => Len(trials) >= 1 /\ LastTrial.progress
  /\ (pc = "line_search" /\ Len(trials) >= 1)
       => ~LastTrial.progress /\ step_length * 2 = LastTrial.step
  /\ (pc = "returned" /\ Len(trials) >= 1 /\ ~LastTrial.progress)
       => IsSentinel(p_unit) /\ LastTrial.step <= StepThreshold

\* C6 witness: the trial of step length 1/32, below 0.05, has been accepted
C6_SmallStepAccepted ==
  /\ pc = "newton_count"
  /\ Len(trials) = 6
  /\ LastTrial.step < StepThreshold
  /\ LastTrial.progress

\* C7 (as stated): whenever the Jacobian at the current iterate has a
\* determinant <= 0, the inversion ends with the failure outcome.
C7_NonPositiveDeterminantFails ==
  (pc = "done" /\ via \in {"newton", "early_out"} /\ det <= 0)
    => outcome = "ExcTransformationFailed"

\* C7 (amended): whenever a Newton step is to be solved at an iterate whose
\* Jacobian has determinant <= 0, the iteration returns the sentinel and
\* transform_real_to_unit_cell turns the sentinel into
\* ExcTransformationFailed; no point is returned.
C7_DegenerateSolveFails ==
  [][/\ (pc = "newton_solve" /\ det <= 0)
          => (pc' = "returned" /\ p_unit'.kind = "inf")
     /\ (pc = "returned" /\ p_unit.kind = "inf")
          => (pc' = "done" /\ outcome' = "ExcTransformationFailed")]_vars

\* C7 witness: the very first solve met a determinant <= 0
C7_FirstSolveDegenerate ==
  /\ pc = "done"
  /\ via = "newton"
  /\ det <= 0
  /\ newton_iteration = 0
  /\ trials = <<>>
  /\ outcome = "ExcTransformationFailed"

\* a straight cell is degenerate when dim == spacedim and it is inverted
NonDegenerate == ~(inverted /\ dim = spacedim)

\* C8: the round trip: the inverse applied to the image of xi succeeds and
\* returns xi (on the grid 1e-10 is less than one grid step), for every
\* instantiation, degree and displacement of vertex 0.
C8_RoundTrip ==
  (pc = "done" /\ geom = "affine" /\ NonDegenerate)
    => outcome = "point" /\ via \in ImplementedPaths /\ p_unit = Finite(xi)


\* the codimension-one iteration is under way or has ended this query
InCodim1 == pc \in {"codim1", "codim1_exit"} \/ via = "codim1"

\* the loop counter is raised only by a test that found the residual above
\* eps, and once more by the test that ends the loop at the limit: it is at
\* most loop_limit exactly when the last test found the residual at or
\* below eps
EndedBelowEps == loop <= loop_limit

\* C19 (as stated): the codimension-one inversion returns a point exactly
\* when its loop ended because the residual was at most eps, and throws
\* ExcTransformationFailed exactly when the residual was still above eps
\* after the loop limit; a run whose residual falls to eps or below is
\* never reported as failed.
C19_FailedOnlyAboveEps ==
  (via = "codim1" /\ pc \in {"returned", "done"}) =>
    /\ outcome \in {"none", "point", "ExcTransformationFailed"}
    /\ (outcome = "ExcTransformationFailed") <=> ~EndedBelowEps

\* C20 (as stated): the codimension-one iteration is damped as the one for
\* dim == spacedim is: the update of an iteration is applied with a step
\* length that has been tried, so every iteration leaves a trial behind.
C20_Codim1Damped ==
  (InCodim1 /\ loop >= 1) => Len(trials) >= 1

\* C20 (amended): the codimension-one iteration is an undamped Newton
\* iteration.  No step length is tried or reduced; every iteration applies
\* the full Newton step, which on a straight cell lands on the solution at
\* once, so that one iteration is all such a cell takes.
C20_Codim1FullStep ==
  InCodim1 =>
    /\ trials = <<>>
    /\ step_length = FullStep
    /\ (geom = "affine" /\ loop >= 1) =>
         (loop = 1 /\ p_unit = Finite(xi))

\* C20 witness: on a straight cell one iteration of the codimension-one
\* inversion has moved the reference point and the residual test has then
\* ended the loop
C20_OneFullStep ==
  /\ pc = "codim1_exit"
  /\ geom = "affine"
  /\ loop = 1
  /\ xi # Scale \div 2


\* a finished query of a degree-1 mapping with dim == spacedim == 2
QuadQueryDone ==
  pc = "done" /\ dim = 2 /\ spacedim = 2 /\ polynomial_degree = 1

\* C21: for a degree-1 mapping with dim == spacedim == 2,
\* transform_real_to_unit_cell returns the closed-form result if and only if
\* the closed-form solve succeeded and both coordinates lie in
\* [-1e-15, 1 + 1e-15]; in every other case the Newton iteration is run
\* exactly once afterwards and its outcome, a point or
\* ExcTransformationFailed, is the final outcome, so that a failure of the
\* closed form alone is never the final result.
C21_ClosedFormOrNewton ==
  QuadQueryDone =>
    LET succeeded == closed_form.outcome = "returned"
        in_cell ==
          /\ closed_form.xi.kind = "finite"
          /\ closed_form.eta.kind = "finite"
          /\ closed_form.xi.v \in 0..Resolution
          /\ closed_form.eta.v \in 0..Resolution
    IN /\ (via = "closed_form") <=> (succeeded /\ in_cell)
       /\ via = "closed_form" =>
            /\ outcome = "point"
            /\ p_unit = Finite(<<closed_form.xi.v, closed_form.eta.v>>)
            /\ internal_calls = 0
       /\ via # "closed_form" =>
            /\ internal_calls = 1
            /\ via \in {"newton", "early_out"}
            /\ outcome \in {"point", "ExcTransformationFailed"}
            /\ outcome = "point" => p_unit.kind # "inf"

\* C21 witness: the closed form has succeeded with a point outside the
\* reference cell and the Newton iteration that followed has failed
C21_OutsideThenNewtonFailed ==
  /\ QuadQueryDone
  /\ closed_form.outcome = "returned"
  /\ closed_form.xi.kind = "finite"
  /\ closed_form.xi.v > Resolution
  /\ outcome = "ExcTransformationFailed"
  /\ internal_calls = 1

-----------------------------------------------------------------------------
(* MatrixFree: the actions *)

SetupInit ==
  /\ dim = 1
  /\ spacedim = 1
  /\ polynomial_degree = 1
  /\ preserves = TRUE
  /\ debug \in BOOLEAN
  /\ geom = "general"
  /\ inverted = FALSE
  /\ IdleQuery
  /\ env \in Environments
  /\ Constructed
  /\ IdleFill
  /\ IdleFormula
  /\ EmptyPool
  /\ IdleExt

hp_functionality_enabled == env.fes_size > 1

Fail(exc) ==
  /\ setup_error' = exc
  /\ setup_pc' = "error"

\* a clear() that forgets the two flags
clear_keeps_flags ==
  /\ setup_pc = "done"
  /\ additional_data' = DefaultData
  /\ setup_pc' = "constructed"
  /\ task_info' = ClearedTaskInfo
  /\ cell_level_index' = <<>>
  /\ cell_active_fe_index' = <<>>
  /\ counter' = 0
  /\ subdomain_boundary_cells' = <<>>
  /\ ghosts_assigned' = FALSE
  /\ renumbering' = <<>>
  /\ irregular_cells' = <<>>
  /\ connectivity' = <<>>
  /\ setup_error' = "none"
  /\ UNCHANGED <<env, cell_level_index_end_local, indices_are_initialized,
                 mapping_is_initialized, inv_vars, aux_vars>>

\* clear() of an object that has been set up
clear ==
  /\ setup_pc = "done"
  /\ additional_data' = DefaultData
  /\ setup_pc' = "constructed"
  /\ task_info' = ClearedTaskInfo
  /\ cell_level_index' = <<>>
  /\ cell_active_fe_index' = <<>>
  /\ counter' = 0
  /\ subdomain_boundary_cells' = <<>>
  /\ ghosts_assigned' = FALSE
  /\ renumbering' = <<>>
  /\ irregular_cells' = <<>>
  /\ connectivity' = <<>>
  /\ indices_are_initialized' = FALSE
  /\ mapping_is_initialized' = FALSE
  /\ setup_error' = "none"
  /\ UNCHANGED <<env, cell_level_index_end_local, inv_vars, aux_vars>>

\* internal_reinit up to and including initialize_dof_handlers: clear(), the
\* process count, the owned cells in z-order
internal_reinit ==
  /\ setup_pc = "constructed"
  /\ \E a \in AdditionalDataChoices(env) : additional_data' = a
  /\ indices_are_initialized' = FALSE
  /\ mapping_is_initialized' = FALSE
  /\ task_info' = [ClearedTaskInfo EXCEPT !.n_procs = env.n_procs]
  /\ cell_level_index' = Iota(1, env.n_cells)
  /\ cell_level_index_end_local' = env.n_cells
  /\ cell_active_fe_index' = <<>>
  /\ counter' = 0
  /\ subdomain_boundary_cells' = <<>>
  /\ ghosts_assigned' = FALSE
  /\ renumbering' = <<>>
  /\ irregular_cells' = <<>>
  /\ connectivity' = <<>>
  /\ setup_error' = "none"
  /\ setup_pc' = "scheme"
  /\ UNCHANGED <<env, inv_vars, aux_vars>>

\* internal_reinit: the basic multithreading information
SelectScheme ==
  /\ setup_pc = "scheme"
  /\ \E with_tbb \in BOOLEAN, n_threads \in 1..MaxThreads :
       task_info' =
         [task_info EXCEPT !.scheme =
            EffectiveScheme(additional_data.tasks_parallel_scheme,
                            with_tbb, n_threads)]
  /\ setup_pc' = "dof_info"
  /\ UNCHANGED <<env, additional_data, cell_level_index,
                 cell_level_index_end_local, cell_active_fe_index, counter,
                 subdomain_boundary_cells, ghosts_assigned, renumbering,
                 irregular_cells, connectivity, indices_are_initialized,
                 mapping_is_initialized, setup_error, inv_vars, aux_vars>>

\* compute_dof_info up to the loop over the cells: the ghost cells of
\* face_setup, the per-handler tables
compute_dof_info ==
  /\ setup_pc = "dof_info"
  /\ \E n_ghost \in (IF DoFaceIntegrals(additional_data)
                        /\ task_info.n_procs > 1
                       THEN 0..MaxGhost ELSE {0}) :
       IF hp_functionality_enabled
          /\ additional_data.cell_vectorization_category # <<>> /\ debug
         THEN /\ Fail("ExcNotImplemented")
              /\ UNCHANGED <<cell_level_index, cell_active_fe_index>>
         ELSE /\ cell_level_index' = cell_level_index \o GhostCells(n_ghost)
              /\ cell_active_fe_index' =
                   IF hp_functionality_enabled
                      \/ additional_data.cell_vectorization_category # <<>>
                     THEN [c \in 1..(Len(cell_level_index) + n_ghost) |->
                             invalid_unsigned_int]
                     ELSE <<>>
              /\ setup_pc' = "read"
              /\ UNCHANGED setup_error
  /\ UNCHANGED <<env, additional_data, task_info, cell_level_index_end_local,
                 counter, subdomain_boundary_cells, ghosts_assigned,
                 renumbering, irregular_cells, connectivity,
                 indices_are_initialized, mapping_is_initialized, inv_vars, aux_vars>>

\* the loop over the cells: read_dof_indices of each cell, its active FE
\* index or category, whether it is at the subdomain boundary
read_dof_indices ==
  /\ setup_pc = "read"
  /\ LET n == ReadLoopEnd(Len(cell_level_index))
         read == Iota(1, n)
         category == additional_data.cell_vectorization_category
         fe_indices ==
           {f \in [1..n -> 0..(env.fes_size - 1)] :
              \A c \in 1..n : ~IsOwned(cell_level_index[c]) => f[c] = 0}
     IN /\ \E active_fe_index \in (IF hp_functionality_enabled
                                      THEN fe_indices
                                      ELSE {[c \in 1..n |-> 0]}) :
             cell_active_fe_index' =
               IF hp_functionality_enabled
                 THEN [c \in 1..Len(cell_active_fe_index) |->
                         IF c <= n THEN active_fe_index[c]
                                   ELSE cell_active_fe_index[c]]
               ELSE IF category # <<>>
                 THEN [c \in 1..Len(cell_active_fe_index) |->
                         IF c > n THEN cell_active_fe_index[c]
                         ELSE IF IsOwned(cell_level_index[c])
                           THEN category[cell_level_index[c]]
                         ELSE 0]
               ELSE cell_active_fe_index
        /\ subdomain_boundary_cells' =
             SelectSeq(read,
                       LAMBDA c : /\ cell_at_subdomain_boundary(cell_level_index[c])
                                  /\ c <= cell_level_index_end_local)
        /\ counter' = n
  /\ setup_pc' = "ghosts"
  /\ UNCHANGED <<env, additional_data, task_info, cell_level_index,
                 cell_level_index_end_local, ghosts_assigned, renumbering,
                 irregular_cells, connectivity, indices_are_initialized,
                 mapping_is_initialized, setup_error, inv_vars, aux_vars>>

\* after the loop: the cell counts of task_info, the ghost indices
assign_ghosts ==
  /\ setup_pc = "ghosts"
  /\ task_info' =
       [task_info EXCEPT
          !.n_active_cells = cell_level_index_end_local,
          !.n_ghost_cells = Len(cell_level_index) - cell_level_index_end_local]
  /\ ghosts_assigned' = TRUE
  /\ setup_pc' = "check"
  /\ UNCHANGED <<env, additional_data, cell_level_index,
                 cell_level_index_end_local, cell_active_fe_index, counter,
                 subdomain_boundary_cells, renumbering, irregular_cells,
                 connectivity, indices_are_initialized,
                 mapping_is_initialized, setup_error, inv_vars, aux_vars>>

\* the assertion on categories and threading, then the choice of the branch
CheckCategories ==
  /\ setup_pc = "check"
  /\ IF debug /\ ~CategoriesAllowed(task_info.scheme,
                                    additional_data.cell_vectorization_category)
       THEN Fail("ExcMessage")
       ELSE /\ setup_pc' = IF task_info.scheme = "none" THEN "blocks_serial"
                                                        ELSE "blocks_tasks"
            /\ UNCHANGED setup_error
  /\ UNCHANGED <<env, additional_data, task_info, cell_level_index,
                 cell_level_index_end_local, cell_active_fe_index, counter,
                 subdomain_boundary_cells, ghosts_assigned, renumbering,
                 irregular_cells, connectivity, indices_are_initialized,
                 mapping_is_initialized, inv_vars, aux_vars>>

\* task_info.scheme == none
CreateBlocksSerial ==
  /\ setup_pc = "blocks_serial"
  /\ \E r \in {create_blocks_serial(
                   task_info.n_active_cells, task_info.n_ghost_cells,
                   env.n_lanes, cell_active_fe_index,
                   additional_data.cell_vectorization_categories_strict
                     \/ hp_functionality_enabled)} :
        /\ renumbering' = r.renumbering
        /\ irregular_cells' = r.irregular_cells
        /\ task_info' =
             [task_info EXCEPT !.cell_partition_data = r.cell_partition_data]
  /\ setup_pc' = "renumber"
  /\ UNCHANGED <<env, additional_data, cell_level_index,
                 cell_level_index_end_local, cell_active_fe_index, counter,
                 subdomain_boundary_cells, ghosts_assigned, connectivity,
                 indices_are_initialized, mapping_is_initialized, setup_error,
                 inv_vars, aux_vars>>

\* the threaded branch up to n_blocks: the boundary cells, the first blocks,
\* the regrouping by active FE index
setup_blocks_tasks(scheme, n_procs, boundary_cells, N, G, W, fe, hp, max_fe) ==
  LET boundary == make_boundary_cells_divisible(boundary_cells, N, W)
      r == initial_setup_blocks_tasks(boundary, N, G, W, n_procs)
      cpd == IF scheme = "partition_color"
               THEN PartitionColorData(r.cell_partition_data, n_procs)
               ELSE r.cell_partition_data
      s == IF scheme \in {"partition_color", "color"} /\ hp
             THEN HpRegroup(r.renumbering, r.irregular_cells, cpd, fe,
                            start_nonboundary(scheme, n_procs, cpd), W, N,
                            max_fe)
             ELSE [renumbering |-> r.renumbering,
                   irregular_cells |-> r.irregular_cells,
                   cell_partition_data |-> cpd]
  IN [subdomain_boundary_cells |-> boundary,
      renumbering |-> s.renumbering,
      irregular_cells |-> s.irregular_cells,
      cell_partition_data |-> s.cell_partition_data]

SetupBlocksTasks ==
  /\ setup_pc = "blocks_tasks"
  /\ \E r \in {setup_blocks_tasks(
                   task_info.scheme, task_info.n_procs,
                   subdomain_boundary_cells, task_info.n_active_cells,
                   task_info.n_ghost_cells, env.n_lanes, cell_active_fe_index,
                   hp_functionality_enabled, env.fes_size)} :
       /\ subdomain_boundary_cells' = r.subdomain_boundary_cells
       /\ renumbering' = r.renumbering
       /\ irregular_cells' = r.irregular_cells
       /\ task_info' =
            [task_info EXCEPT !.cell_partition_data = r.cell_partition_data]
  /\ setup_pc' = "connectivity"
  /\ UNCHANGED <<env, additional_data, cell_level_index,
                 cell_level_index_end_local, cell_active_fe_index, counter,
                 ghosts_assigned, connectivity, indices_are_initialized,
                 mapping_is_initialized, setup_error, inv_vars, aux_vars>>

\* the connectivity graph of the faces: the face neighbors, made symmetric,
\* and the neighbors one layer away
face_connectivity(cli, N, do_face_integrals) ==
  LET map == fill_index_subrange(cli)
      direct ==
        symmetrize(<<>> \o [c \in 1..N |-> fill_connectivity_subrange(c, map)])
  IN IF do_face_integrals
       THEN <<>> \o [c \in 1..N |->
                       fill_connectivity_indirect_subrange(c, direct)]
       ELSE <<>> \o [c \in 1..N |-> {}]

\* the connectivity graph: that of the faces, then the cells that share
\* degrees of freedom
BuildConnectivity ==
  /\ setup_pc = "connectivity"
  /\ \E faces \in {face_connectivity(cell_level_index,
                                      task_info.n_active_cells,
                                      DoFaceIntegrals(additional_data))} :
       \E is_fe_dg \in BOOLEAN :
         connectivity' = make_connectivity_graph(faces, is_fe_dg)
  /\ setup_pc' = "thread_graph"
  /\ UNCHANGED <<env, additional_data, task_info, cell_level_index,
                 cell_level_index_end_local, cell_active_fe_index, counter,
                 subdomain_boundary_cells, ghosts_assigned, renumbering,
                 irregular_cells, indices_are_initialized,
                 mapping_is_initialized, setup_error, inv_vars, aux_vars>>

\* make_thread_graph, the slots of the ghost batches and the checks on the
\* numbers of cells
thread_graph_and_ghosts(conn, renum, irregular, cpd, W, N, G) ==
  LET n_ghost_slots == cpd[Len(cpd)] - cpd[Len(cpd) - 1]
      r == make_thread_graph(conn, renum, irregular, cpd, W, N)
      back == r.cell_partition_data[Len(r.cell_partition_data)]
      irr == ghost_slots(r.irregular_cells, back, n_ghost_slots, G, W)
      n_cells == CellsBefore(irr, W, back)
      n_ghosts == CellsBefore(irr, W, back + n_ghost_slots) - n_cells
  IN [renumbering |-> r.renumbering,
      irregular_cells |-> irr,
      cell_partition_data |->
        Append(r.cell_partition_data, back + n_ghost_slots),
      sums_agree |-> (n_cells = N /\ n_ghosts = G)]

MakeThreadGraph ==
  /\ setup_pc = "thread_graph"
  /\ \E r \in {thread_graph_and_ghosts(
                   connectivity, renumbering, irregular_cells,
                   task_info.cell_partition_data, env.n_lanes,
                   task_info.n_active_cells, task_info.n_ghost_cells)} :
       IF debug /\ ~r.sums_agree
         THEN /\ Fail("ExcDimensionMismatch")
              /\ UNCHANGED <<renumbering, irregular_cells, task_info>>
         ELSE /\ renumbering' = r.renumbering
              /\ irregular_cells' = r.irregular_cells
              /\ task_info' =
                   [task_info EXCEPT
                      !.cell_partition_data = r.cell_partition_data]
              /\ setup_pc' = "renumber"
              /\ UNCHANGED setup_error
  /\ UNCHANGED <<env, additional_data, cell_level_index,
                 cell_level_index_end_local, cell_active_fe_index, counter,
                 subdomain_boundary_cells, ghosts_assigned, connectivity,
                 indices_are_initialized, mapping_is_initialized, inv_vars, aux_vars>>

\* the renumbering is performed: the batches of cell_level_index
Renumber ==
  /\ setup_pc = "renumber"
  /\ LET cpd == task_info.cell_partition_data
     IN IF debug /\ ~IsPermutation(renumbering, task_info.n_active_cells
                                                  + task_info.n_ghost_cells)
          THEN Fail("ExcInternalError") /\ UNCHANGED cell_level_index
          ELSE /\ cell_level_index' =
                    perform_renumbering(cell_level_index, renumbering,
                                        irregular_cells, env.n_lanes,
                                        cpd[Len(cpd)])
               /\ setup_pc' = "indices"
               /\ UNCHANGED setup_error
  /\ UNCHANGED <<env, additional_data, task_info, cell_level_index_end_local,
                 cell_active_fe_index, counter, subdomain_boundary_cells,
                 ghosts_assigned, renumbering, irregular_cells, connectivity,
                 indices_are_initialized, mapping_is_initialized, inv_vars, aux_vars>>

\* the rest of initialize_indices and of internal_reinit
InitializeIndices ==
  /\ setup_pc = "indices"
  /\ indices_are_initialized' = TRUE
  /\ mapping_is_initialized' \in BOOLEAN  \* additional_data.initialize_mapping
  /\ setup_pc' = "done"
  /\ UNCHANGED <<env, additional_data, task_info, cell_level_index,
                 cell_level_index_end_local, cell_active_fe_index, counter,
                 subdomain_boundary_cells, ghosts_assigned, renumbering,
                 irregular_cells, connectivity, setup_error, inv_vars, aux_vars>>

SetupNext ==
  \/ clear
  \/ internal_reinit
  \/ SelectScheme
  \/ compute_dof_info
  \/ read_dof_indices
  \/ assign_ghosts
  \/ CheckCategories
  \/ CreateBlocksSerial
  \/ SetupBlocksTasks
  \/ BuildConnectivity
  \/ MakeThreadGraph
  \/ Renumber
  \/ InitializeIndices

SpecSetup == SetupInit /\ [][SetupNext]_vars

-----------------------------------------------------------------------------
(* Claims about the setup of MatrixFree *)

category == additional_data.cell_vectorization_category
cell_partition_data == task_info.cell_partition_data
n_active_cells == task_info.n_active_cells
n_ghost_cells == task_info.n_ghost_cells
n_lanes == env.n_lanes

\* the number of batches of locally owned cells
n_owned_batches == cell_partition_data[Len(cell_partition_data) - 1]

\* renumbering, irregular_cells and cell_partition_data are complete
Scheduled == setup_pc \in {"renumber", "indices", "done"}

\* cell_level_index holds the batches
Batched == setup_pc \in {"indices", "done"}

PositionOf(c) == CHOOSE i \in 1..Len(renumbering) : renumbering[i] = c

BatchOf(c) ==
  CHOOSE b \in 1..Len(irregular_cells) :
    /\ CellsBefore(irregular_cells, n_lanes, b - 1) < PositionOf(c)
    /\ PositionOf(c) <= CellsBefore(irregular_cells, n_lanes, b)

\* the partition (the color) a batch lies in
PartitionOf(b) ==
  CHOOSE k \in 1..(Len(cell_partition_data) - 1) :
    cell_partition_data[k] < b /\ b <= cell_partition_data[k + 1]

Edges ==
  {e \in (DOMAIN connectivity) \X (DOMAIN connectivity) :
     e[2] \in connectivity[e[1]]}

ActiveLanes(b) ==
  {cell_level_index[(b - 1) * n_lanes + j] :
     j \in 1..LaneCount(irregular_cells[b], n_lanes)}

\* the owned cells are regrouped by active FE index or strict category
Regrouped ==
  /\ cell_active_fe_index # <<>>
  /\ \/ /\ task_info.scheme = "none"
        /\ (additional_data.cell_vectorization_categories_strict
            \/ hp_functionality_enabled)
     \/ /\ task_info.scheme \in {"partition_color", "color"}
        /\ hp_functionality_enabled

\* the group of an owned cell: its index and, under the color scheme, whether
\* it is one of the cells at the subdomain boundary
GroupOf(c) ==
  <<cell_active_fe_index[c],
    task_info.scheme = "color" /\ c \in Elements(subdomain_boundary_cells)>>

Groups == {GroupOf(c) : c \in 1..n_active_cells}

GroupSize(g) == Cardinality({c \in 1..n_active_cells : GroupOf(c) = g})

RECURSIVE SumOfBatches(_)
SumOfBatches(G) ==
  IF G = {} THEN 0
  ELSE LET g == CHOOSE x \in G : TRUE
       IN Ceil(GroupSize(g), n_lanes) + SumOfBatches(G \ {g})

\* every owned cell is in exactly one lane that is not padding
EachCellOnce ==
  /\ \A c \in 1..n_active_cells :
       Cardinality({b \in 1..n_owned_batches : c \in ActiveLanes(b)}) = 1
  /\ \A b \in 1..n_owned_batches :
       /\ ActiveLanes(b) \subseteq 1..n_active_cells
       /\ Cardinality(ActiveLanes(b)) = LaneCount(irregular_cells[b], n_lanes)

\* C2 (as stated): N owned cells and W lanes give exactly ceil(N / W)
\* batches whose lanes that are not padding hold every cell exactly once.
C2_CeilOfCellsOverLanes ==
  Batched => (n_owned_batches = Ceil(n_active_cells, n_lanes) /\ EachCellOnce)

\* C2 (amended): the lanes that are not padding hold every owned cell exactly
\* once, and every batch has between 1 and W of them.  The number of batches
\* is ceil(N / W) unless the cells are regrouped by active FE index or strict
\* category; then each group of n cells is cut into ceil(n / W) batches of
\* its own, the number of batches is the sum of these, which is at least
\* ceil(N / W), and at most one batch of a group is not full.
C2_BatchesPerGroup ==
  Batched =>
    /\ EachCellOnce
    /\ \A b \in 1..n_owned_batches :
         LaneCount(irregular_cells[b], n_lanes) \in 1..n_lanes
    /\ n_owned_batches >= Ceil(n_active_cells, n_lanes)
    /\ ~Regrouped => n_owned_batches = Ceil(n_active_cells, n_lanes)
    /\ Regrouped =>
         /\ n_owned_batches = SumOfBatches(Groups)
         /\ \A b \in 1..n_owned_batches :
              \E g \in Groups : \A c \in ActiveLanes(b) : GroupOf(c) = g
         /\ \A g \in Groups :
              Cardinality({b \in 1..n_owned_batches :
                             /\ \A c \in ActiveLanes(b) : GroupOf(c) = g
                             /\ irregular_cells[b] > 0}) <= 1

\* C2 witness: cells of two active FE indices have been batched into more
\* than ceil(N / W) batches
C2_MoreBatchesThanCeil ==
  /\ Batched
  /\ hp_functionality_enabled
  /\ task_info.scheme \in {"partition_color", "color"}
  /\ n_owned_batches > Ceil(n_active_cells, n_lanes)

\* C3: after the renumbering is computed it is a permutation of the owned and
\* the ghost cells; the lanes of the batches before
\* cell_partition_data[end - 2] add up to n_active_cells, those of the
\* batches after it to n_ghost_cells; the partition ranges start at 0, do
\* not overlap and end at the last batch, so that every batch, and with it
\* every lane of cell_level_index, lies in exactly one of them.
C3_RenumberingAndPartitions ==
  Scheduled =>
    /\ IsPermutation(renumbering, n_active_cells + n_ghost_cells)
    /\ CellsBefore(irregular_cells, n_lanes, n_owned_batches) = n_active_cells
    /\ CellsBefore(irregular_cells, n_lanes, Len(irregular_cells))
         = n_active_cells + n_ghost_cells
    /\ cell_partition_data[1] = 0
    /\ cell_partition_data[Len(cell_partition_data)] = Len(irregular_cells)
    /\ \A k \in 1..(Len(cell_partition_data) - 1) :
         cell_partition_data[k] <= cell_partition_data[k + 1]
    /\ \A b \in 1..Len(irregular_cells) :
         Cardinality({k \in 1..(Len(cell_partition_data) - 1) :
                        cell_partition_data[k] < b
                        /\ b <= cell_partition_data[k + 1]}) = 1
    /\ Batched =>
         /\ Len(cell_level_index) = Len(irregular_cells) * n_lanes
         /\ \A b \in (n_owned_batches + 1)..Len(irregular_cells) :
              ActiveLanes(b) \subseteq
                (n_active_cells + 1)..(n_active_cells + n_ghost_cells)

\* C3 witness: a threaded setup with a ghost batch that is not full and more
\* than one color has been batched
C3_ColorsAndGhostBatch ==
  /\ Batched
  /\ task_info.scheme # "none"
  /\ n_ghost_cells % n_lanes # 0
  /\ Len(cell_partition_data) > 3

\* the positions behind the assertion on categories and threading
PastCheck ==
  {"blocks_serial", "blocks_tasks", "connectivity", "thread_graph",
   "renumber", "indices", "done"}

\* C9 (as stated): a setup that is given categories and asks for a threaded
\* scheme is never carried on; it ends in the configuration error.
C9_CategoriesWithThreadsRejected ==
  (additional_data.tasks_parallel_scheme # "none" /\ category # <<>>)
    => setup_pc \notin PastCheck

\* C9 (amended): the error is raised exactly in a build with assertions when
\* categories are given and the scheme in effect is threaded, which is the
\* requested one only with TBB and more than one thread and is none
\* otherwise.  Without assertions, or when the scheme has been replaced by
\* none, the setup is carried on.
C9_RejectedWhenThreadedInEffect ==
  /\ setup_error = "ExcMessage" =>
       /\ debug
       /\ category # <<>>
       /\ task_info.scheme # "none"
       /\ task_info.scheme = additional_data.tasks_parallel_scheme
  /\ (setup_pc \in PastCheck /\ debug /\ category # <<>>)
       => task_info.scheme = "none"
  /\ task_info.scheme \in {"none", additional_data.tasks_parallel_scheme}

\* C9 witness: the setup has been rejected
C9_Rejected ==
  /\ setup_error = "ExcMessage"
  /\ additional_data.tasks_parallel_scheme = "partition_partition"

\* C10 (as stated): the error on categories and threading is raised before
\* any cell has been read and before the ghosts are assigned.
C10_RaisedBeforeCellWork ==
  setup_error = "ExcMessage" => (counter = 0 /\ ~ghosts_assigned)

\* C10 (amended): the error on categories and threading is raised after the
\* degrees of freedom of every cell have been read and the ghosts have been
\* assigned, and before the renumbering and the batches are formed.
C10_RaisedAfterReadingBeforeBatching ==
  setup_error = "ExcMessage" =>
    /\ counter = Len(cell_level_index)
    /\ counter >= 1
    /\ ghosts_assigned
    /\ renumbering = <<>>
    /\ irregular_cells = <<>>
    /\ cell_partition_data = <<>>
    /\ Len(cell_level_index) = n_active_cells + n_ghost_cells
    /\ ~indices_are_initialized

\* C10 witness: the error is raised with all cells, ghosts included, read
C10_RaisedWithGhostsRead ==
  /\ setup_error = "ExcMessage"
  /\ n_ghost_cells >= 1
  /\ counter = n_active_cells + n_ghost_cells
  /\ ghosts_assigned

\* the batch and the lane of entry k of cell_level_index
BatchOfEntry(k) == ((k - 1) \div n_lanes) + 1
LaneOfEntry(k) == ((k - 1) % n_lanes) + 1

\* entry k is not a padding lane
RealEntry(k) ==
  LaneOfEntry(k) <= LaneCount(irregular_cells[BatchOfEntry(k)], n_lanes)

\* the number of entries of cell_level_index before the first ghost batch
GhostEntriesBegin == n_owned_batches * n_lanes

EntryOf(b, j) == cell_level_index[(b - 1) * n_lanes + j]

-----------------------------------------------------------------------------
(* MappingQGeneric::fill_fe_values: the actions *)

FillInit ==
  /\ \E pr \in FillInstantiations : dim = pr[1] /\ spacedim = pr[2]
  /\ polynomial_degree \in 1..MaxDegree
  /\ preserves = TRUE
  /\ debug \in BOOLEAN
  /\ geom = "general"
  /\ inverted = FALSE
  /\ IdleQuery
  /\ env = [n_cells |-> 1, n_lanes |-> 1, n_procs |-> 1, fes_size |-> 1,
            periodic |-> FALSE]
  /\ Constructed
  /\ IdleFill
  /\ IdleFormula
  /\ EmptyPool
  /\ IdleExt

\* the quadratures and elements the evaluation tells apart
EvaluationPaths ==
  IF dim > 1 THEN {"general", "tensor", "collocation"} ELSE {"general"}

\* the determinants of the Jacobian at the quadrature points of a cell
CellDeterminants ==
  UNION {IF dim = spacedim THEN [1..n -> DeterminantValues]
                           ELSE {[i \in 1..n |-> RegularDeterminant]} :
           n \in 1..MaxPoints}

\* the caller sizes JxW_values when it asks for them; when it asks for the
\* normal vectors alone the size is what the caller made it
JxWSizes(flags) ==
  IF "update_JxW_values" \notin flags /\ "update_normal_vectors" \in flags
    THEN BOOLEAN ELSE {TRUE}

\* get_data and the head of fill_fe_values: the flags, the cell, the
\* support points and the similarity to work with
fill_fe_values ==
  /\ fill_pc = "idle"
  /\ \E requested \in RequestedFlags :
       /\ update_each' = requires_update_flags(requested)
       /\ JxW_sized' \in JxWSizes(requires_update_flags(requested))
  /\ cell_similarity' \in Similarities
  /\ computed_cell_similarity' =
       ComputedCellSimilarity(polynomial_degree, cell_similarity')
  /\ evaluation_path' \in EvaluationPaths
  /\ determinants' \in CellDeterminants
  /\ JxW_values' = [i \in 1..Len(determinants') |-> NotWritten]
  /\ inverse_jacobians' = [i \in 1..Len(determinants') |-> "unwritten"]
  /\ quantities' = {}
  /\ fill_error' = "none"
  /\ fill_result' = "none"
  /\ fill_pc' = "geometry"
  /\ UNCHANGED <<inv_vars, setup_vars,
                 formula_vars, pool_vars, ext_vars>>

\* the quadrature points, the Jacobians and their derivatives
UpdateGeometry ==
  /\ fill_pc = "geometry"
  /\ quantities' =
       quantities \cup UpdateGeometryWrites(dim, evaluation_path,
                                            computed_cell_similarity,
                                            update_each)
  /\ fill_pc' = "JxW"
  /\ UNCHANGED <<update_each, cell_similarity, computed_cell_similarity,
                 evaluation_path, determinants, JxW_sized, JxW_values,
                 inverse_jacobians, fill_error, fill_result, inv_vars,
                 setup_vars, formula_vars, pool_vars, ext_vars>>

\* the JxW values and the normal vectors.  A write to JxW_values of size 0
\* is undefined: the call goes on or the process dies.
FillJxW ==
  /\ fill_pc = "JxW"
  /\ \E r \in {fill_JxW_values(dim, spacedim, computed_cell_similarity,
                               update_each, determinants, debug)} :
       IF update_each \cap {"update_normal_vectors", "update_JxW_values"} # {}
            /\ ~JxW_sized /\ debug
         THEN /\ fill_error' = "ExcDimensionMismatch"
              /\ fill_pc' = "done"
              /\ UNCHANGED <<JxW_values, quantities>>
         ELSE /\ JxW_values' = r.JxW_values
              /\ quantities' = quantities \cup r.written
              /\ IF r.error # "none"
                   THEN fill_error' = r.error /\ fill_pc' = "done"
                 ELSE IF "JxW_values" \in r.written /\ ~JxW_sized
                   THEN \/ fill_error' = "none" /\ fill_pc' = "copy"
                        \/ fill_error' = "SIGSEGV" /\ fill_pc' = "done"
                 ELSE fill_error' = "none" /\ fill_pc' = "copy"
  /\ UNCHANGED <<update_each, cell_similarity, computed_cell_similarity,
                 evaluation_path, determinants, JxW_sized, inverse_jacobians,
                 fill_result, inv_vars, setup_vars,
                 formula_vars, pool_vars, ext_vars>>

\* the Jacobians and their inverses are copied to the output and the
\* similarity is returned
CopyJacobians ==
  /\ fill_pc = "copy"
  /\ quantities' =
       quantities
         \cup copy_jacobians(computed_cell_similarity, update_each)
         \cup MaybeUpdate(computed_cell_similarity, update_each,
                          "update_inverse_jacobians", "inverse_jacobians")
  /\ inverse_jacobians' =
       copy_inverse_jacobians(computed_cell_similarity, update_each,
                              determinants)
  /\ fill_result' = computed_cell_similarity
  /\ fill_pc' = "done"
  /\ UNCHANGED <<update_each, cell_similarity, computed_cell_similarity,
                 evaluation_path, determinants, JxW_sized, JxW_values,
                 fill_error, inv_vars, setup_vars,
                 formula_vars, pool_vars, ext_vars>>

\* FEValues goes on to the next cell
NextCell ==
  /\ fill_pc = "done"
  /\ fill_pc' = "idle"
  /\ update_each' = {}
  /\ cell_similarity' = "none"
  /\ computed_cell_similarity' = "none"
  /\ evaluation_path' = "general"
  /\ determinants' = <<>>
  /\ JxW_sized' = TRUE
  /\ quantities' = {}
  /\ JxW_values' = <<>>
  /\ inverse_jacobians' = <<>>
  /\ fill_error' = "none"
  /\ fill_result' = "none"
  /\ UNCHANGED <<inv_vars, setup_vars,
                 formula_vars, pool_vars, ext_vars>>

FillNext ==
  \/ fill_fe_values
  \/ UpdateGeometry
  \/ FillJxW
  \/ CopyJacobians
  \/ NextCell

SpecFill == FillInit /\ [][FillNext]_vars

-----------------------------------------------------------------------------
(* Claims about fill_fe_values *)

\* JxW values or normal vectors are asked for and the cell is not skipped
JxWLoopRuns ==
  /\ update_each \cap {"update_normal_vectors", "update_JxW_values"} # {}
  /\ Recomputed(computed_cell_similarity)

FirstDistorted ==
  CHOOSE i \in 1..Len(determinants) :
    /\ determinants[i] <= DistortionThreshold
    /\ \A j \in 1..(i - 1) : determinants[j] > DistortionThreshold

Returned == fill_pc = "done" /\ fill_error = "none"

\* C14: a call of fill_fe_values that returns, returns CellSimilarity::none
\* for every similarity passed in when the polynomial degree is above 1, and
\* the similarity passed in when the degree is 1.
C14_ReturnedSimilarity ==
  Returned =>
    /\ polynomial_degree > 1 => fill_result = "none"
    /\ polynomial_degree = 1 => fill_result = cell_similarity

\* C14 witness: a call on a mapping of degree above 1 with the similarity
\* translation passed in has returned
C14_TranslationAtHigherDegree ==
  /\ Returned
  /\ polynomial_degree > 1
  /\ cell_similarity = "translation"


\* the quantities derived from the Jacobian and the update flag of each
JacobianQuantities ==
  {"contravariant", "covariant", "volume_elements", "JxW_values",
   "jacobians", "inverse_jacobians", "jacobian_grads",
   "jacobian_pushed_forward_grads", "jacobian_2nd_derivatives",
   "jacobian_pushed_forward_2nd_derivatives", "jacobian_3rd_derivatives",
   "jacobian_pushed_forward_3rd_derivatives"}

FlagOf(quantity) ==
  IF quantity \in {"contravariant", "covariant"}
    THEN "update_" \o quantity \o "_transformation"
    ELSE "update_" \o quantity

\* C15 (as stated): a quantity derived from the Jacobian is written only if
\* its update flag is set and the computed similarity is not translation,
\* and is otherwise left as it was; the quadrature points are written
\* whenever update_quadrature_points is set.
C15_WrittenOnlyIfRequested ==
  /\ \A q \in JacobianQuantities :
       q \in quantities =>
         /\ FlagOf(q) \in update_each
         /\ computed_cell_similarity # "translation"
  /\ \A i \in DOMAIN JxW_values :
       JxW_values[i].written =>
         /\ "update_JxW_values" \in update_each
         /\ computed_cell_similarity # "translation"
  /\ \A i \in DOMAIN inverse_jacobians :
       inverse_jacobians[i] # "unwritten" =>
         /\ "update_inverse_jacobians" \in update_each
         /\ computed_cell_similarity # "translation"
  /\ fill_pc \in {"JxW", "copy", "done"} =>
       ("quadrature_points" \in quantities
          <=> "update_quadrature_points" \in update_each)

-----------------------------------------------------------------------------
(* internal::MappingQ1::transform_real_to_unit_cell, dim = 2: the actions *)

\* the points to invert
Grid == ((0 - MaxCoord)..MaxCoord) \X ((0 - MaxCoord)..MaxCoord)

\* the cells: vertex 0 at the origin, the others one grid step or none away
\* from it in each coordinate, so that squares, parallelograms, trapezoids,
\* rotated, inverted and collapsed cells are all among them
Corners == ((0 - 1)..1) \X ((0 - 1)..1)
Cells ==
  {<<<<0, 0>>, v1, v2, v3>> : v1 \in Corners, v2 \in Corners, v3 \in Corners}

FormulaInit ==
  /\ dim = 2 /\ spacedim = 2
  /\ polynomial_degree = 1
  /\ preserves = TRUE
  /\ debug = FALSE
  /\ geom = "general"
  /\ inverted = FALSE
  /\ IdleQuery
  /\ env = [n_cells |-> 1, n_lanes |-> 1, n_procs |-> 1, fes_size |-> 1,
            periodic |-> FALSE]
  /\ Constructed
  /\ IdleFill
  /\ EmptyPool
  /\ IdleExt
  /\ formula_pc = "call"
  /\ vertices \in Cells
  /\ point \in Grid
  /\ formula_result = <<>>

\* one call of the closed form
ClosedForm ==
  /\ formula_pc = "call"
  /\ formula_result' = transform_real_to_unit_cell_2d(vertices, point)
  /\ formula_pc' = "done"
  /\ UNCHANGED <<vertices, point, inv_vars, setup_vars, fill_vars,
                 pool_vars, ext_vars>>

\* the caller goes on to a neighbouring point on the same cell
NextPoint ==
  /\ formula_pc = "done"
  /\ point' \in {q \in Grid : Abs(q[1] - point[1]) + Abs(q[2] - point[2]) = 1}
  /\ formula_result' = <<>>
  /\ formula_pc' = "call"
  /\ UNCHANGED <<vertices, inv_vars, setup_vars, fill_vars,
                 pool_vars, ext_vars>>

FormulaNext ==
  \/ ClosedForm
  \/ NextPoint

SpecFormula == FormulaInit /\ [][FormulaNext]_vars

-----------------------------------------------------------------------------
(* Claims about the closed form *)

\* the root the formula keeps, from the discriminant of the call under way
KeptRoot ==
  LET roots == Roots(QuadraticCoefficients(vertices, point))
  IN IF AbsLess(FromCenter(roots[1]), FromCenter(roots[2]))
       THEN roots[1] ELSE roots[2]

\* the denominator of xi along coordinate d is above its threshold
DenominatorUsable(d) ==
  AboveThreshold(XiDenominator(vertices, d, KeptRoot), MaxAbs(vertices, d))

\* C16: the closed form throws ExcTransformationFailed exactly when the
\* discriminant is not strictly positive or neither denominator of xi is
\* above its threshold; otherwise it returns (xi, eta) with eta the root of
\* the quadratic closer to 0.5 and xi from the x-based denominator when that
\* is above its threshold, else from the y-based one; what it returns is
\* finite, never NaN.
C16_ClosedFormOutcome ==
  formula_pc = "done" =>
    LET failed == formula_result.outcome = "ExcTransformationFailed"
    IN \A k \in {QuadraticCoefficients(vertices, point)} :
         /\ formula_result.outcome \in {"returned", "ExcTransformationFailed"}
         /\ Discriminant(k) <= 0 => failed
         /\ Discriminant(k) > 0 =>
              \A roots \in {Roots(k)} :
              \A usable \in {{d \in 1..2 : DenominatorUsable(d)}} :
                /\ failed <=> usable = {}
                /\ ~failed =>
                     /\ formula_result.eta \in {roots[1], roots[2]}
                     /\ \A i \in 1..2 :
                          ~AbsLess(FromCenter(roots[i]),
                                   FromCenter(formula_result.eta))
                     /\ formula_result.xi =
                          Xi(vertices, point, IF 1 \in usable THEN 1 ELSE 2,
                             formula_result.eta)
                     /\ IsFinite(formula_result.xi)
                     /\ IsFinite(formula_result.eta)
                     /\ IsFinite(roots[1]) /\ IsFinite(roots[2])

\* C16 witness: a call with two different roots has returned xi from the
\* y-based denominator, the x-based one not being above its threshold
C16_ReturnedFromSecondDenominator ==
  /\ formula_pc = "done"
  /\ formula_result.outcome = "returned"
  /\ Roots(QuadraticCoefficients(vertices, point))[1]
       # Roots(QuadraticCoefficients(vertices, point))[2]
  /\ ~DenominatorUsable(1)

-----------------------------------------------------------------------------
(* MatrixFree: the pool of constraint coefficients, the actions *)

setup_but_flags ==
  <<env, additional_data, setup_pc, task_info, cell_level_index,
    cell_level_index_end_local, cell_active_fe_index, counter,
    subdomain_boundary_cells, ghosts_assigned, renumbering, irregular_cells,
    connectivity, setup_error>>

PoolInit ==
  /\ dim = 1 /\ spacedim = 1
  /\ polynomial_degree = 1
  /\ preserves = TRUE
  /\ debug \in BOOLEAN
  /\ geom = "general"
  /\ inverted = FALSE
  /\ IdleQuery
  /\ env = [n_cells |-> 1, n_lanes |-> 1, n_procs |-> 1, fes_size |-> 1,
            periodic |-> FALSE]
  /\ Constructed
  /\ IdleFill
  /\ IdleFormula
  /\ EmptyPool
  /\ IdleExt

\* internal_reinit with initialize_indices: clear(), which leaves the pool
\* alone, and the start of initialize_indices with an empty constraint_values
ReinitIndices ==
  /\ pool_pc = "idle"
  /\ indices_are_initialized' = FALSE
  /\ mapping_is_initialized' = FALSE
  /\ constraint_values' = <<>>
  /\ entries_read' = {}
  /\ n_entries_read' = 0
  /\ rows_before' = IF constraint_pool_row_index = <<>> THEN 0
                    ELSE Len(constraint_pool_row_index) - 1
  /\ last_call' = "reinit"
  /\ pool_pc' = "reading"
  /\ UNCHANGED <<constraint_pool_data, constraint_pool_row_index,
                 setup_but_flags, inv_vars, fill_vars, formula_vars, ext_vars>>

\* compute_dof_info reads the indices of a constrained degree of freedom
ReadConstraint ==
  /\ pool_pc = "reading"
  /\ n_entries_read < MaxReads
  /\ \E entries \in CoefficientVectors :
       /\ constraint_values' = insert_entries(constraint_values, entries)
       /\ entries_read' = entries_read \cup {entries}
  /\ n_entries_read' = n_entries_read + 1
  /\ UNCHANGED <<pool_pc, last_call, rows_before, constraint_pool_data,
                 constraint_pool_row_index, indices_are_initialized,
                 mapping_is_initialized, setup_but_flags, inv_vars,
                 fill_vars, formula_vars, ext_vars>>

\* compute_dof_info throws: the setup ends here
SetupAborts ==
  /\ pool_pc = "reading"
  /\ last_call' = "reinit_aborted"
  /\ pool_pc' = "idle"
  /\ UNCHANGED <<rows_before, entries_read, n_entries_read, constraint_values,
                 constraint_pool_data, constraint_pool_row_index,
                 indices_are_initialized, mapping_is_initialized,
                 setup_but_flags, inv_vars, fill_vars, formula_vars, ext_vars>>

\* initialize_indices from the return of compute_dof_info to its end, and
\* the rest of internal_reinit, which initializes the mapping if asked to
SetConstraintPool ==
  /\ pool_pc = "reading"
  /\ \E r \in {set_constraint_pool(constraint_values,
                                   constraint_pool_row_index)} :
       /\ constraint_pool_data' = r.constraint_pool_data
       /\ constraint_pool_row_index' = r.constraint_pool_row_index
  /\ indices_are_initialized' = TRUE
  /\ mapping_is_initialized' \in BOOLEAN
  /\ pool_pc' = "idle"
  /\ UNCHANGED <<last_call, rows_before, entries_read, n_entries_read, constraint_values,
                 setup_but_flags, inv_vars, fill_vars, formula_vars, ext_vars>>

\* internal_reinit without initialize_indices: the mapping alone
ReinitMapping ==
  /\ pool_pc = "idle"
  /\ last_call' = "reinit_mapping"
  /\ mapping_is_initialized' \in {mapping_is_initialized, TRUE}
  /\ UNCHANGED <<pool_pc, rows_before, entries_read, n_entries_read, constraint_values,
                 constraint_pool_data, constraint_pool_row_index,
                 indices_are_initialized, setup_but_flags, inv_vars,
                 fill_vars, formula_vars, ext_vars>>

\* clear() called by the user
ClearPool ==
  /\ pool_pc = "idle"
  /\ last_call' = "clear"
  /\ indices_are_initialized' = FALSE
  /\ mapping_is_initialized' = FALSE
  /\ UNCHANGED <<pool_pc, rows_before, entries_read, n_entries_read, constraint_values,
                 constraint_pool_data, constraint_pool_row_index,
                 setup_but_flags, inv_vars, fill_vars, formula_vars, ext_vars>>

PoolNext ==
  \/ ReinitIndices
  \/ ReadConstraint
  \/ SetupAborts
  \/ SetConstraintPool
  \/ ReinitMapping
  \/ ClearPool

SpecPool == PoolInit /\ [][PoolNext]_vars

-----------------------------------------------------------------------------
(* Claims about the pool of constraint coefficients *)

\* row i of the pool
PoolRow(i) ==
  SubSeq(constraint_pool_data, constraint_pool_row_index[i] + 1,
         constraint_pool_row_index[i + 1])

\* C17: after initialize_indices, also when it follows earlier setups of
\* the same object, constraint_pool_row_index starts with 0, does not
\* decrease, has one more entry than there are distinct coefficient vectors
\* and ends with constraint_pool_data.size(); every row holds one of the
\* coefficient vectors read and no two rows hold the same one.
C17_PoolRowsDistinct ==
  (pool_pc = "idle" /\ indices_are_initialized) =>
    LET n_rows == Len(constraint_pool_row_index) - 1
    IN /\ Len(constraint_pool_row_index) >= 1
       /\ constraint_pool_row_index[1] = 0
       /\ \A i \in 1..n_rows :
            constraint_pool_row_index[i] <= constraint_pool_row_index[i + 1]
       /\ n_rows = Cardinality(entries_read)
       /\ constraint_pool_row_index[n_rows + 1] = Len(constraint_pool_data)
       /\ {PoolRow(i) : i \in 1..n_rows} = entries_read
       /\ \A i, j \in 1..n_rows : PoolRow(i) = PoolRow(j) => i = j

\* C17 witness: a second setup of the same object has filled the pool with
\* fewer rows than the first left in it, one coefficient vector having been
\* read twice
C17_SecondSetupShrinksPool ==
  /\ pool_pc = "idle"
  /\ indices_are_initialized
  /\ last_call = "reinit"
  /\ n_entries_read > Cardinality(entries_read)
  /\ Cardinality(entries_read) >= 1
  /\ rows_before > Cardinality(entries_read)

\* the start, the end and the length of row i in an array of row starts
RowRange(row_index, i) ==
  [start |-> row_index[i], end |-> row_index[i + 1],
   length |-> row_index[i + 1] - row_index[i]]

\* C29: the offset array compute_dof_info builds in the key order of
\* constraint_values.constraints and hands to DoFInfo::reorder_cells gives
\* every pool row the range and the length that the
\* constraint_pool_row_index stored by initialize_indices gives it, for
\* every set of coefficient vectors and every order of insertion
C29_SameRowRanges ==
  (pool_pc = "idle" /\ indices_are_initialized) =>
    \A i \in 1..Len(constraint_values) :
      RowRange(reorder_cells_row_index(constraint_values), i)
        = RowRange(constraint_pool_row_index, i)

-----------------------------------------------------------------------------
(* MatrixFree::initialize_dof_handlers on a refined triangulation.  A cell is
   the path from its level-0 ancestor down to it: <<c>> is coarse cell c and
   Append(cell, k) is child k of cell. *)

\* cells that may have been refined when the object is set up
MaxRefined == 2

\* cells that may belong to another process, by either of the two ids
MaxForeign == 1

\* tria.cell_iterators_on_level(0), in the order of the iteration
CoarseCells == <<<<0>>, <<1>>>>

\* cell->n_children() of a quadrilateral
n_children == 4

\* task_info.my_pid
my_pid == 0

\* numbers::invalid_subdomain_id
invalid_subdomain_id == invalid_unsigned_int

\* cell->has_children()
has_children(cell) == cell \in refined

\* cell->child(child)
child_of(cell, child) == Append(cell, child)

\* the parent of a cell that is not a coarse one
Parent(cell) == SubSeq(cell, 1, Len(cell) - 1)

\* the cells of the triangulation
TriaCells ==
  Elements(CoarseCells)
    \cup {child_of(cell, k) : cell \in refined, k \in 0..(n_children - 1)}

\* cell->is_active()
is_active(cell) == cell \in TriaCells /\ ~has_children(cell)

\* cell->level()
Level(cell) == Len(cell) - 1

\* cell->index(): the number of the cell among the cells its level can hold
RECURSIVE CellIndex(_)
CellIndex(cell) ==
  IF Len(cell) = 1 THEN cell[1]
  ELSE n_children * CellIndex(Parent(cell)) + cell[Len(cell)]

\* the pair that is stored for a cell
Handle(cell) == <<Level(cell), CellIndex(cell)>>

\* tria.n_levels()
n_levels == Max({Level(cell) : cell \in TriaCells}) + 1

\* tria.n_active_cells()
tria_n_active_cells == Cardinality({cell \in TriaCells : is_active(cell)})

\* cell->subdomain_id() and cell->level_subdomain_id()
subdomain_id_of(cell) == IF cell \in not_owned THEN my_pid + 1 ELSE my_pid
level_subdomain_id_of(cell) ==
  IF cell \in level_not_owned THEN my_pid + 1 ELSE my_pid

\* a resolve_cell that adds the active children of a cell before it steps
\* into the refined ones
RECURSIVE resolve_cell_active_first(_, _, _)
RECURSIVE resolve_refined_children(_, _, _, _)
resolve_refined_children(cell, child, cell_its, subdomain_id) ==
  IF child >= n_children THEN cell_its
  ELSE resolve_refined_children(
         cell, child + 1,
         IF has_children(child_of(cell, child))
           THEN resolve_cell_active_first(child_of(cell, child), cell_its,
                                          subdomain_id)
           ELSE cell_its,
         subdomain_id)

resolve_cell_active_first(cell, cell_its, subdomain_id) ==
  IF has_children(cell)
    THEN LET active == SelectSeq([k \in 1..n_children |-> child_of(cell, k - 1)],
                                 LAMBDA c : /\ ~has_children(c)
                                            /\ \/ subdomain_id = invalid_subdomain_id
                                               \/ subdomain_id_of(c) = subdomain_id)
         IN resolve_refined_children(
              cell, 0,
              cell_its \o [i \in 1..Len(active) |-> Handle(active[i])],
              subdomain_id)
  ELSE IF subdomain_id = invalid_subdomain_id
            \/ subdomain_id_of(cell) = subdomain_id
    THEN Append(cell_its, Handle(cell))
  ELSE cell_its

\* a resolve_cell that compares the level owner
RECURSIVE resolve_cell_by_level_owner(_, _, _)
RECURSIVE resolve_children_by_level_owner(_, _, _, _)
resolve_children_by_level_owner(cell, child, cell_its, subdomain_id) ==
  IF child >= n_children THEN cell_its
  ELSE resolve_children_by_level_owner(
         cell, child + 1,
         resolve_cell_by_level_owner(child_of(cell, child), cell_its,
                                     subdomain_id),
         subdomain_id)

resolve_cell_by_level_owner(cell, cell_its, subdomain_id) ==
  IF has_children(cell)
    THEN resolve_children_by_level_owner(cell, 0, cell_its, subdomain_id)
  ELSE IF subdomain_id = invalid_subdomain_id
            \/ level_subdomain_id_of(cell) = subdomain_id
    THEN Append(cell_its, Handle(cell))
  ELSE cell_its

\* resolve_cell: steps through all children and adds the active cells
\* recursively
RECURSIVE resolve_cell(_, _, _)
RECURSIVE resolve_children(_, _, _, _)
\* for (child = 0; child < cell->n_children(); ++child)
resolve_children(cell, child, cell_its, subdomain_id) ==
  IF child >= n_children THEN cell_its
  ELSE resolve_children(
         cell, child + 1,
         resolve_cell(child_of(cell, child), cell_its, subdomain_id),
         subdomain_id)

resolve_cell(cell, cell_its, subdomain_id) ==
  IF has_children(cell)
    THEN resolve_children(cell, 0, cell_its, subdomain_id)
  ELSE IF subdomain_id = invalid_subdomain_id
            \/ subdomain_id_of(cell) = subdomain_id
    THEN Append(cell_its, Handle(cell))
  ELSE cell_its

\* for (const auto &cell : tria.cell_iterators_on_level(0)) resolve_cell(...)
RECURSIVE ResolveCoarse(_, _, _)
ResolveCoarse(cells, cell_its, subdomain_id) ==
  IF cells = <<>> THEN cell_its
  ELSE ResolveCoarse(Tail(cells),
                     resolve_cell(Head(cells), cell_its, subdomain_id),
                     subdomain_id)

\* tria.cell_iterators_on_level(level), in the order of their index
RECURSIVE SortedByIndex(_)
SortedByIndex(S) ==
  IF S = {} THEN <<>>
  ELSE LET first == CHOOSE c \in S : \A d \in S : CellIndex(c) <= CellIndex(d)
       IN <<first>> \o SortedByIndex(S \ {first})

cell_iterators_on_level(level) ==
  SortedByIndex({cell \in TriaCells : Level(cell) = level})

\* the list initialize_dof_handlers builds
ResolvedCells(level) ==
  IF level = invalid_unsigned_int
    THEN ResolveCoarse(CoarseCells, <<>>,
                       IF distributed THEN my_pid ELSE invalid_subdomain_id)
  ELSE IF level < n_levels
    THEN LET on_level == cell_iterators_on_level(level)
             kept == SelectSeq(on_level,
                               LAMBDA c : level_subdomain_id_of(c) = my_pid)
         IN [i \in 1..Len(kept) |-> Handle(kept[i])]
  ELSE <<>>

-----------------------------------------------------------------------------
(* initialize_dof_handlers: the actions *)

setup_but_cells ==
  <<env, additional_data, setup_pc, task_info, cell_active_fe_index, counter,
    subdomain_boundary_cells, ghosts_assigned, renumbering, irregular_cells,
    connectivity, indices_are_initialized, mapping_is_initialized,
    setup_error>>

ResolveInit ==
  /\ dim = 2 /\ spacedim = 2
  /\ polynomial_degree = 1
  /\ preserves = TRUE
  /\ debug = FALSE
  /\ geom = "general"
  /\ inverted = FALSE
  /\ IdleQuery
  /\ env = [n_cells |-> 1, n_lanes |-> 1, n_procs |-> 1, fes_size |-> 1,
            periodic |-> FALSE]
  /\ Constructed
  /\ IdleFill
  /\ IdleFormula
  /\ EmptyPool
  /\ resolve_pc = "building"
  /\ refined = {}
  /\ not_owned = {}
  /\ level_not_owned = {}
  /\ distributed \in BOOLEAN
  /\ mg_level = invalid_unsigned_int
  /\ IdlePastTree

\* Triangulation::execute_coarsening_and_refinement on one active cell,
\* before the cells are partitioned
RefineCell ==
  /\ resolve_pc = "building"
  /\ Cardinality(refined) < MaxRefined
  /\ \E cell \in TriaCells :
       /\ is_active(cell)
       /\ refined' = refined \cup {cell}
  /\ UNCHANGED <<resolve_pc, not_owned, level_not_owned, distributed,
                 mg_level, cell_level_index,
                 cell_level_index_end_local, setup_but_cells, inv_vars,
                 fill_vars, formula_vars, pool_vars, past_tree_vars>>

\* the partitioner gives an active cell of a parallel triangulation to
\* another process
SetSubdomainId ==
  /\ resolve_pc \in {"building", "partitioning"}
  /\ resolve_pc' = "partitioning"
  /\ distributed
  /\ Cardinality(not_owned \cup level_not_owned) < MaxForeign
  /\ \E cell \in TriaCells \ not_owned :
       /\ is_active(cell)
       /\ not_owned' = not_owned \cup {cell}
  /\ UNCHANGED <<refined, level_not_owned, distributed, mg_level,
                 cell_level_index, cell_level_index_end_local,
                 setup_but_cells, inv_vars, fill_vars, formula_vars,
                 pool_vars, past_tree_vars>>

\* the partitioner gives a cell of the multigrid hierarchy to another process
SetLevelSubdomainId ==
  /\ resolve_pc \in {"building", "partitioning"}
  /\ resolve_pc' = "partitioning"
  /\ distributed
  /\ Cardinality(not_owned \cup level_not_owned) < MaxForeign
  /\ \E cell \in TriaCells \ level_not_owned :
       level_not_owned' = level_not_owned \cup {cell}
  /\ UNCHANGED <<refined, not_owned, distributed, mg_level,
                 cell_level_index, cell_level_index_end_local,
                 setup_but_cells, inv_vars, fill_vars, formula_vars,
                 pool_vars, past_tree_vars>>

\* initialize_dof_handlers(dof_handler, additional_data), called by the one
\* reinit the object sees on this triangulation
initialize_dof_handlers ==
  /\ resolve_pc # "resolved"
  /\ \E level \in {invalid_unsigned_int} \cup (0..n_levels) :
     \E cells \in {ResolvedCells(level)} :
       /\ mg_level' = level
       /\ cell_level_index' = cells
       /\ cell_level_index_end_local' = Len(cells)
  /\ resolve_pc' = "resolved"
  /\ UNCHANGED <<refined, not_owned, level_not_owned, distributed,
                 setup_but_cells, inv_vars, fill_vars, formula_vars,
                 pool_vars, past_tree_vars>>

ResolveNext ==
  \/ RefineCell
  \/ SetSubdomainId
  \/ SetLevelSubdomainId
  \/ initialize_dof_handlers

SpecResolve == ResolveInit /\ [][ResolveNext]_vars

-----------------------------------------------------------------------------
(* Claims about initialize_dof_handlers *)

\* the cell a stored pair stands for
CellOf(handle) == CHOOSE cell \in TriaCells : Handle(cell) = handle

\* the cells of cell_level_index, in its order
KeptCells == [i \in 1..Len(cell_level_index) |-> CellOf(cell_level_index[i])]

\* the last setup was one on the active cells
ActiveCellMode == resolve_pc = "resolved" /\ mg_level = invalid_unsigned_int

\* children of the same parent
Siblings(a, b) == Len(a) > 1 /\ Len(a) = Len(b) /\ Parent(a) = Parent(b)

\* b is a or a descendant of a
Within(a, b) == Len(a) <= Len(b) /\ SubSeq(b, 1, Len(a)) = a

\* a comes before b in the z-order: at the first level where their ancestors
\* differ, the ancestor of a has the smaller number
ZBefore(a, b) ==
  \E n \in 1..Min(Len(a), Len(b)) :
    /\ SubSeq(a, 1, n - 1) = SubSeq(b, 1, n - 1)
    /\ a[n] < b[n]

\* C22 (as stated): in the list built through resolve_cell in active-cell
\* mode, kept cells that are siblings occupy adjacent, consecutive positions.
C22_SiblingsAdjacent ==
  ActiveCellMode =>
    \A K \in {KeptCells} :
      \A i \in 1..Len(K), j \in 1..Len(K) :
        (i < j /\ Siblings(K[i], K[j])) =>
          \A k \in i..j : Siblings(K[i], K[k]) \/ k = i

\* C22 (amended): the list is in z-order, and the kept active descendants of
\* every cell of the triangulation occupy consecutive positions; kept
\* siblings are separated exactly by the kept descendants of the siblings
\* between them.
C22_SubtreesConsecutive ==
  ActiveCellMode =>
    \A K \in {KeptCells} :
      /\ \A i \in 1..Len(K), j \in 1..Len(K) : i < j => ZBefore(K[i], K[j])
      /\ \A cell \in TriaCells :
           \A inside \in {{i \in 1..Len(K) : Within(cell, K[i])}} :
             \A i \in inside, j \in inside : i..j \subseteq inside
      /\ \A i \in 1..Len(K), j \in 1..Len(K) :
           (i < j /\ Siblings(K[i], K[j])) =>
             \A k \in (i + 1)..(j - 1) :
               \E s \in TriaCells :
                 /\ Siblings(K[i], s)
                 /\ K[i][Len(s)] < s[Len(s)] /\ s[Len(s)] < K[j][Len(s)]
                 /\ Within(s, K[k])

\* C22 witness: two kept siblings with the children of a refined sibling
\* between them
C22_SiblingsApart ==
  /\ ActiveCellMode
  /\ \E i \in 1..Len(cell_level_index), j \in 1..Len(cell_level_index) :
       /\ i + 1 < j
       /\ Siblings(KeptCells[i], KeptCells[j])
       /\ ~Siblings(KeptCells[i], KeptCells[i + 1])

\* C23: initialize_dof_handlers keeps a cell if and only if, in active-cell
\* mode, it is an active descendant of a level-0 cell and the triangulation
\* is serial or its subdomain_id is the local rank, and in multigrid-level
\* mode, it lies on the requested level and its level_subdomain_id is the
\* local rank.  Each kept cell appears exactly once, for a serial mesh the
\* length of the list is n_active_cells, and cell_level_index_end_local is
\* the length of the list.
C23_KeptCells ==
  resolve_pc = "resolved" =>
    LET kept == {cell_level_index[i] : i \in 1..Len(cell_level_index)}
        expected ==
          IF mg_level = invalid_unsigned_int
            THEN {c \in TriaCells :
                    /\ c \notin refined
                    /\ \E c0 \in Elements(CoarseCells) : Within(c0, c)
                    /\ ~distributed \/ c \notin not_owned}
            ELSE {c \in TriaCells :
                    Level(c) = mg_level /\ c \notin level_not_owned}
    IN /\ kept = {Handle(c) : c \in expected}
       /\ Cardinality(kept) = Len(cell_level_index)
       /\ Cardinality(expected) = Len(cell_level_index)
       /\ (~distributed /\ mg_level = invalid_unsigned_int) =>
            Len(cell_level_index) = tria_n_active_cells
       /\ cell_level_index_end_local = Len(cell_level_index)

\* C23 witness: on a refined parallel triangulation an active cell of
\* another process has been left out, and a cell whose level owner is
\* another process would have been kept
C23_ForeignCellLeftOut ==
  /\ ActiveCellMode
  /\ distributed
  /\ refined # {}
  /\ \E c \in not_owned :
       /\ is_active(c)
       /\ c \notin level_not_owned
       /\ \A i \in 1..Len(cell_level_index) : cell_level_index[i] # Handle(c)
  /\ cell_level_index # <<>>

-----------------------------------------------------------------------------
(* compute_dof_info: the tasks that build the face connectivity *)

\* parallel::apply_to_subranges hands out at most MaxTasks subranges
MaxTasks == 2

\* the numbers of a set in ascending order
Ascending(S) ==
  CHOOSE s \in [1..Cardinality(S) -> S] :
    \A i, j \in 1..Cardinality(S) : i < j => s[i] < s[j]

\* parallel::apply_to_subranges(begin, end, f, grainsize): the ways to cut
\* [begin, end) into consecutive subranges that are not empty; cell is the
\* loop variable of the task, which starts at begin. Positions count from 1.
apply_to_subranges(begin, end) ==
  {[i \in 1..(Len(points) - 1) |->
      [begin |-> points[i], end |-> points[i + 1], cell |-> points[i]]] :
     points \in {Ascending({begin, end} \cup cuts) :
                   cuts \in {c \in SUBSET ((begin + 1)..(end - 1)) :
                               Cardinality(c) < MaxTasks}}}

\* the tasks have all returned
Joined == \A i \in 1..Len(tasks) : tasks[i].cell = tasks[i].end

\* the loop variable of a task moves to the next cell
Advance(i) == [tasks EXCEPT ![i].cell = @ + 1]

\* tbb::concurrent_unordered_map::insert: a key that is there keeps its value
insert(map, key, value) ==
  IF key \in DOMAIN map THEN map
  ELSE [k \in DOMAIN map \cup {key} |-> IF k = key THEN value ELSE map[k]]

\* fill_index_subrange at one cell: the first position, and a position whose
\* pair differs from the one before it, are inserted
inserts_pair(cli, cell) == cell = 1 \/ cli[cell] # cli[cell - 1]

\* entries written for both cells of a face
add_entries_both_ways(row, columns) ==
  {<<row, c>> : c \in columns} \cup {<<c, row>> : c \in columns}

\* DynamicSparsityPattern::add_entries(row, begin, end): the entries written
add_entries(row, columns) == {<<row, c>> : c \in columns}

\* a pattern with entries added to it
WithEntries(pattern, entries) ==
  [r \in DOMAIN pattern |->
     pattern[r] \cup {e[2] : e \in {f \in entries : f[1] = r}}]

\* the rows the entries are in, as far as the pattern has them
RowsOf(pattern, entries) == {e[1] : e \in entries} \cap DOMAIN pattern

\* a task is noted as a writer of rows
Noted(writers, rows, i) ==
  [r \in DOMAIN writers |-> IF r \in rows THEN writers[r] \cup {i}
                            ELSE writers[r]]

\* DynamicSparsityPattern::reinit(n, n)
EmptyPattern(n) == [r \in 1..n |-> {}]

\* compute_dof_info with face integrals on a row of cells

GraphInit ==
  /\ dim = 2 /\ spacedim = 2
  /\ polynomial_degree = 1
  /\ preserves = TRUE
  /\ debug = FALSE
  /\ geom = "general"
  /\ inverted = FALSE
  /\ IdleQuery
  /\ env \in {e \in Environments : e.n_lanes = 1 /\ e.fes_size = 1}
  /\ Constructed
  /\ IdleFill
  /\ IdleFormula
  /\ EmptyPool
  /\ CoarseMesh
  /\ IdleGraph
  /\ IdlePastGraph

setup_but_graph ==
  <<env, setup_pc, cell_level_index_end_local, cell_active_fe_index, counter,
    subdomain_boundary_cells, ghosts_assigned, renumbering, irregular_cells,
    indices_are_initialized, mapping_is_initialized, setup_error>>

\* compute_dof_info up to the connectivity: the owned cells and the ghost
\* cells are in cell_level_index, connectivity.reinit(n_active_cells,
\* n_active_cells), do_face_integrals holds
CollectCells ==
  /\ graph_pc = "idle"
  /\ \E n_ghost \in 0..(IF env.n_procs > 1 THEN MaxGhost ELSE 0) :
       /\ cell_level_index' = Iota(1, env.n_cells) \o GhostCells(n_ghost)
       /\ task_info' = [ClearedTaskInfo EXCEPT
                          !.n_procs = env.n_procs,
                          !.n_active_cells = env.n_cells,
                          !.n_ghost_cells = n_ghost]
  /\ additional_data' = [DefaultData EXCEPT
                           !.mapping_update_flags_inner_faces = TRUE]
  /\ connectivity' = EmptyPattern(env.n_cells)
  /\ graph_pc' = "cells"
  /\ UNCHANGED <<tasks, cell_map, connectivity_direct, row_writers, inserted,
                 setup_but_graph, inv_vars, fill_vars, formula_vars,
                 pool_vars, tree_vars,
                 past_graph_vars>>

\* lines 1147-1153: apply_to_subranges over 0 .. cell_level_index.size()
StartIndex ==
  /\ graph_pc = "cells"
  /\ Len(cell_level_index) > 0
  /\ tasks' \in apply_to_subranges(1, Len(cell_level_index) + 1)
  /\ graph_pc' = "index"
  /\ UNCHANGED <<cell_map, connectivity_direct, row_writers, inserted,
                 task_info, additional_data, cell_level_index, connectivity,
                 setup_but_graph, inv_vars, fill_vars, formula_vars,
                 pool_vars, tree_vars,
                 past_graph_vars>>

\* one pass of the loop of fill_index_subrange in one task
FillIndexTask ==
  /\ graph_pc = "index"
  /\ \E i \in 1..Len(tasks) :
       /\ tasks[i].cell < tasks[i].end
       /\ LET cell == tasks[i].cell
          IN IF inserts_pair(cell_level_index, cell)
               THEN /\ cell_map' = insert(cell_map, cell_level_index[cell],
                                           cell)
                    /\ inserted' = inserted
                         \cup {<<i, cell_level_index[cell], cell>>}
               ELSE UNCHANGED <<cell_map, inserted>>
       /\ tasks' = Advance(i)
  /\ UNCHANGED <<graph_pc, connectivity_direct, row_writers,
                 task_info, additional_data, cell_level_index, connectivity,
                 setup_but_graph, inv_vars, fill_vars, formula_vars,
                 pool_vars, tree_vars,
                 past_graph_vars>>

\* lines 1156-1165: connectivity_direct(n_active_cells, n_active_cells) and
\* apply_to_subranges over 0 .. n_active_cells
StartDirect ==
  /\ graph_pc = "index"
  /\ Joined
  /\ connectivity_direct' = EmptyPattern(task_info.n_active_cells)
  /\ row_writers' = EmptyPattern(task_info.n_active_cells)
  /\ tasks' \in apply_to_subranges(1, task_info.n_active_cells + 1)
  /\ graph_pc' = "direct"
  /\ UNCHANGED <<cell_map, inserted,
                 task_info, additional_data, cell_level_index, connectivity,
                 setup_but_graph, inv_vars, fill_vars, formula_vars,
                 pool_vars, tree_vars,
                 past_graph_vars>>

\* one pass of the loop of fill_connectivity_subrange in one task
FillConnectivityTask ==
  /\ graph_pc = "direct"
  /\ \E i \in 1..Len(tasks) :
       /\ tasks[i].cell < tasks[i].end
       /\ LET cell == tasks[i].cell
              new_indices ==
                {cell_map[d] :
                   d \in fill_connectivity_subrange(cell_level_index[cell],
                                                    DOMAIN cell_map)}
              entries == add_entries(cell, new_indices)
          IN /\ connectivity_direct' = WithEntries(connectivity_direct,
                                                   entries)
             /\ row_writers' = Noted(row_writers,
                                     RowsOf(connectivity_direct, entries)
                                       \cup {cell}, i)
       /\ tasks' = Advance(i)
  /\ UNCHANGED <<graph_pc, cell_map, inserted,
                 task_info, additional_data, cell_level_index, connectivity,
                 setup_but_graph, inv_vars, fill_vars, formula_vars,
                 pool_vars, tree_vars,
                 past_graph_vars>>

\* line 1166: connectivity_direct.symmetrize(), once the tasks have returned
Symmetrize ==
  /\ graph_pc = "direct"
  /\ Joined
  /\ connectivity_direct' = symmetrize(connectivity_direct)
  /\ graph_pc' = "symmetrized"
  /\ UNCHANGED <<tasks, cell_map, row_writers, inserted,
                 task_info, additional_data, cell_level_index, connectivity,
                 setup_but_graph, inv_vars, fill_vars, formula_vars,
                 pool_vars, tree_vars,
                 past_graph_vars>>

\* lines 1169-1176: apply_to_subranges over 0 .. n_active_cells
StartIndirect ==
  /\ graph_pc = "symmetrized"
  /\ row_writers' = EmptyPattern(task_info.n_active_cells)
  /\ tasks' \in apply_to_subranges(1, task_info.n_active_cells + 1)
  /\ graph_pc' = "indirect"
  /\ UNCHANGED <<cell_map, connectivity_direct, inserted,
                 task_info, additional_data, cell_level_index, connectivity,
                 setup_but_graph, inv_vars, fill_vars, formula_vars,
                 pool_vars, tree_vars,
                 past_graph_vars>>

\* one pass of the loop of fill_connectivity_indirect_subrange in one task
FillIndirectTask ==
  /\ graph_pc = "indirect"
  /\ \E i \in 1..Len(tasks) :
       /\ tasks[i].cell < tasks[i].end
       /\ LET block == tasks[i].cell
              entries ==
                add_entries(block,
                            fill_connectivity_indirect_subrange(
                              block, connectivity_direct))
          IN /\ connectivity' = WithEntries(connectivity, entries)
             /\ row_writers' = Noted(row_writers,
                                     RowsOf(connectivity, entries)
                                       \cup {block}, i)
       /\ tasks' = Advance(i)
  /\ UNCHANGED <<graph_pc, cell_map, connectivity_direct, inserted,
                 task_info, additional_data, cell_level_index,
                 setup_but_graph, inv_vars, fill_vars, formula_vars,
                 pool_vars, tree_vars,
                 past_graph_vars>>

GraphNext ==
  \/ CollectCells
  \/ StartIndex
  \/ FillIndexTask
  \/ StartDirect
  \/ FillConnectivityTask
  \/ Symmetrize
  \/ StartIndirect
  \/ FillIndirectTask

SpecGraph == GraphInit /\ [][GraphNext]_vars

-----------------------------------------------------------------------------
(* Claims about the face connectivity *)

\* connectivity_direct has been made symmetric
Symmetrized == graph_pc \in {"symmetrized", "indirect"}

\* two cells at these positions share a face, a periodic one included
ShareFace(a, b) == cell_level_index[b] \in FaceNeighbors(cell_level_index[a])

SameOwnershipTag(a, b) ==
  level_subdomain_id(cell_level_index[a])
    = level_subdomain_id(cell_level_index[b])

OwnedPositions == 1..task_info.n_active_cells

\* C24: after fill_connectivity_subrange has run over all owned cells and
\* symmetrize() has been applied, connectivity_direct is symmetric, has no
\* self-loops, has an edge between two distinct owned cells if and only if
\* they share a non-boundary or periodic face and carry the same
\* level_subdomain_id, and all its column indices are owned-cell indices
C24_DirectConnectivity ==
  Symmetrized =>
    /\ DOMAIN connectivity_direct = OwnedPositions
    /\ \A a \in OwnedPositions :
         /\ connectivity_direct[a] \subseteq OwnedPositions
         /\ a \notin connectivity_direct[a]
         /\ \A b \in connectivity_direct[a] : a \in connectivity_direct[b]
         /\ \A b \in OwnedPositions \ {a} :
              b \in connectivity_direct[a]
                <=> (ShareFace(a, b) /\ SameOwnershipTag(a, b))

\* what one task alone builds: every pair at its first position
SequentialMap(cli) ==
  [k \in Elements(cli) |->
     CHOOSE i \in 1..Len(cli) :
       cli[i] = k /\ \A j \in 1..(i - 1) : cli[j] # k]

\* what one task alone builds in connectivity_direct
SequentialDirect(cli, N) ==
  [c \in 1..N |->
     {SequentialMap(cli)[d] :
        d \in fill_connectivity_subrange(cli[c], Elements(cli))}]

\* what one task alone builds in connectivity
SequentialIndirect(cli, N) ==
  [c \in 1..N |->
     fill_connectivity_indirect_subrange(
       c, symmetrize(<<>> \o SequentialDirect(cli, N)))]

\* C30: tasks that run fill_index_subrange, fill_connectivity_subrange and
\* fill_connectivity_indirect_subrange over disjoint subranges never write
\* the same row of a sparsity pattern and never insert different values for
\* one key of the map, and the map and the graphs they build are those of a
\* single task, however the range is split and the tasks are interleaved
C30_TasksDoNotInterfere ==
  /\ \A r \in DOMAIN row_writers : Cardinality(row_writers[r]) <= 1
  /\ \A x, y \in inserted : x[2] = y[2] => x[3] = y[3]
  /\ (graph_pc = "index" /\ Joined)
       => cell_map = SequentialMap(cell_level_index)
  /\ (graph_pc = "direct" /\ Joined)
       => connectivity_direct
            = SequentialDirect(cell_level_index, task_info.n_active_cells)
  /\ (graph_pc = "indirect" /\ Joined)
       => connectivity
            = SequentialIndirect(cell_level_index, task_info.n_active_cells)

\* two tasks run fill_connectivity_subrange at the same time: the second
\* has written its rows while the first is in the middle of its subrange
C30_SecondTaskAhead ==
  /\ graph_pc = "direct"
  /\ Len(tasks) = 2
  /\ tasks[2].cell = tasks[2].end
  /\ tasks[1].begin < tasks[1].cell
  /\ tasks[1].cell < tasks[1].end
  /\ row_writers[tasks[2].begin] = {2}
  /\ row_writers[1] = {1}

-----------------------------------------------------------------------------
(* MappingQGeneric::requires_update_flags: the loop *)

\* for (unsigned int i = 0; i < 5; ++i)
n_passes == 5

FlagsInit ==
  /\ dim = 2 /\ spacedim = 2
  /\ polynomial_degree = 1
  /\ preserves = TRUE
  /\ debug = FALSE
  /\ geom = "general"
  /\ inverted = FALSE
  /\ IdleQuery
  /\ env = [n_cells |-> 1, n_lanes |-> 1, n_procs |-> 1, fes_size |-> 1,
            periodic |-> FALSE]
  /\ Constructed
  /\ IdleFill
  /\ IdleFormula
  /\ EmptyPool
  /\ CoarseMesh
  /\ IdleGraph
  /\ IdleFlags
  /\ FreshData
  /\ IdleRange
  /\ IdleGuess

not_flags_vars ==
  <<inv_vars, setup_vars, fill_vars, formula_vars, pool_vars, tree_vars,
    graph_vars,
    cache_vars,
    range_vars,
    guess_vars>>

\* requires_update_flags(in): UpdateFlags out = in
CallRequiresUpdateFlags ==
  /\ flags_pc = "idle"
  /\ \E in \in RequestedFlags :
       /\ first_in' = in
       /\ flags_in' = in
       /\ flags_out' = in
  /\ flags_i' = 0
  /\ on_result' = FALSE
  /\ flags_pc' = "loop"
  /\ UNCHANGED not_flags_vars

\* one pass of the loop
LoopPass ==
  /\ flags_pc = "loop"
  /\ flags_i < n_passes
  /\ flags_out' = RequiresStep(flags_out)
  /\ flags_i' = flags_i + 1
  /\ UNCHANGED <<flags_pc, first_in, flags_in, on_result, not_flags_vars>>

\* return out
ReturnFlags ==
  /\ flags_pc = "loop"
  /\ flags_i >= n_passes
  /\ flags_pc' = "returned"
  /\ UNCHANGED <<first_in, flags_in, flags_out, flags_i, on_result,
                 not_flags_vars>>

\* requires_update_flags(requires_update_flags(in))
CallOnResult ==
  /\ flags_pc = "returned"
  /\ ~on_result
  /\ flags_in' = flags_out
  /\ flags_i' = 0
  /\ on_result' = TRUE
  /\ flags_pc' = "loop"
  /\ UNCHANGED <<first_in, flags_out, not_flags_vars>>

\* the caller asks for other flags
NextFlags ==
  /\ flags_pc = "returned"
  /\ on_result
  /\ flags_pc' = "idle"
  /\ UNCHANGED <<first_in, flags_in, flags_out, flags_i, on_result,
                 not_flags_vars>>

FlagsNext ==
  \/ CallRequiresUpdateFlags
  \/ LoopPass
  \/ ReturnFlags
  \/ CallOnResult
  \/ NextFlags

SpecFlags == FlagsInit /\ [][FlagsNext]_vars

-----------------------------------------------------------------------------
(* Claims about requires_update_flags *)

\* a flag of the first set is in F only with the second flag
Implies(F, any, flag) == (F \cap any # {}) => flag \in F

\* the five rules of the loop, each as an implication
ClosedUnderRules(F) ==
  /\ Implies(F, {"update_JxW_values", "update_normal_vectors"},
             "update_boundary_forms")
  /\ Implies(F, {"update_covariant_transformation", "update_JxW_values",
                 "update_jacobians", "update_jacobian_grads",
                 "update_boundary_forms", "update_normal_vectors"},
             "update_contravariant_transformation")
  /\ Implies(F, {"update_inverse_jacobians",
                 "update_jacobian_pushed_forward_grads",
                 "update_jacobian_pushed_forward_2nd_derivatives",
                 "update_jacobian_pushed_forward_3rd_derivatives"},
             "update_covariant_transformation")
  /\ Implies(F, {"update_contravariant_transformation"},
             "update_volume_elements")
  /\ Implies(F, {"update_normal_vectors"}, "update_volume_elements")

-----------------------------------------------------------------------------
(* MappingQGeneric: the support points kept in InternalData *)

\* a vertex is moved at most MaxMoves times
MaxMoves == 2

\* cells as (triangulation, index): two cells of one triangulation and a cell
\* of another one with the same index as a cell of the first
FillCells == {<<1, 1>>, <<1, 2>>, <<2, 1>>}

\* cell->get_triangulation()
get_triangulation(cell) == cell[1]

\* compute_mapping_support_points(cell) for degree 1: the vertices of the
\* cell where they are now
compute_mapping_support_points(cell, displaced) ==
  <<CellLength * cell[2] + displaced[cell], CellLength * (cell[2] + 1)>>

\* the test of fill_fe_face_values and fill_fe_subface_values
NeedsRecompute(data_points, data_cell, cell) ==
  \/ Len(data_points) = 0
  \/ get_triangulation(cell) # get_triangulation(data_cell)
  \/ cell # data_cell

CacheInit ==
  /\ dim = 2 /\ spacedim = 2
  /\ polynomial_degree = 1
  /\ preserves = TRUE
  /\ debug = FALSE
  /\ geom = "general"
  /\ inverted = FALSE
  /\ IdleQuery
  /\ env = [n_cells |-> 1, n_lanes |-> 1, n_procs |-> 1, fes_size |-> 1,
            periodic |-> FALSE]
  /\ Constructed
  /\ IdleFill
  /\ IdleFormula
  /\ EmptyPool
  /\ CoarseMesh
  /\ IdleGraph
  /\ IdleFlags
  /\ mapping_support_points = <<>>
  /\ cell_of_current_support_points = <<>>
  /\ moved = [cell \in FillCells |-> 0]
  /\ fill_call = "none"
  /\ fill_cell = <<>>
  /\ points_used = <<>>
  /\ points_of_cell = <<>>
  /\ IdleRange
  /\ IdleGuess

not_cache_vars ==
  <<inv_vars, setup_vars, fill_vars, formula_vars, pool_vars, tree_vars,
    graph_vars, flags_vars,
    range_vars,
    guess_vars>>

\* the user moves vertex 0 of a cell between two calls
MoveVertex ==
  /\ \E cell \in FillCells :
       /\ moved[cell] < MaxMoves
       /\ moved' = [moved EXCEPT ![cell] = @ + 1]
  /\ UNCHANGED <<mapping_support_points, cell_of_current_support_points,
                 fill_call, fill_cell, points_used, points_of_cell,
                 not_cache_vars>>

\* fill_fe_values(cell, ...): the support points are always recomputed
FillValues ==
  /\ \E cell \in FillCells :
       /\ mapping_support_points' = compute_mapping_support_points(cell, moved)
       /\ cell_of_current_support_points' = cell
       /\ fill_cell' = cell
       /\ points_used' = compute_mapping_support_points(cell, moved)
       /\ points_of_cell' = compute_mapping_support_points(cell, moved)
  /\ fill_call' = "fill_fe_values"
  /\ UNCHANGED <<moved, not_cache_vars>>

\* the head of fill_fe_face_values and of fill_fe_subface_values
FillFace(cell, function) ==
  /\ IF NeedsRecompute(mapping_support_points,
                       cell_of_current_support_points, cell)
       THEN /\ mapping_support_points' =
                 compute_mapping_support_points(cell, moved)
            /\ cell_of_current_support_points' = cell
       ELSE UNCHANGED <<mapping_support_points,
                        cell_of_current_support_points>>
  /\ points_used' = mapping_support_points'
  /\ points_of_cell' = compute_mapping_support_points(cell, moved)
  /\ fill_cell' = cell
  /\ fill_call' = function
  /\ UNCHANGED <<moved, not_cache_vars>>

\* fill_fe_face_values(cell, face_no, ...)
FillFaceValues == \E cell \in FillCells : FillFace(cell, "fill_fe_face_values")

\* fill_fe_subface_values(cell, face_no, subface_no, ...)
FillSubfaceValues ==
  \E cell \in FillCells : FillFace(cell, "fill_fe_subface_values")

CacheNext ==
  \/ MoveVertex
  \/ FillValues
  \/ FillFaceValues
  \/ FillSubfaceValues

SpecCache == CacheInit /\ [][CacheNext]_vars

-----------------------------------------------------------------------------
(* Claims about the support points *)

\* C26: after any sequence of fill_fe_values, fill_fe_face_values and
\* fill_fe_subface_values on one InternalData object, with cells changing
\* and vertices moved between the calls, the support points the latest call
\* used are those of its cell in the geometry it had at the call, and
\* cell_of_current_support_points is that cell
C26_SupportPointsCurrent ==
  fill_call # "none" =>
    /\ cell_of_current_support_points = fill_cell
    /\ points_used = points_of_cell

-----------------------------------------------------------------------------
(* MatrixFree::create_cell_subrange_hp_by_index *)

\* cell_active_fe_index has at most MaxIndices entries
MaxIndices == 3

\* dof_info[vector_component].max_fe_index
max_fe_index == 3

\* *(fe_indices.begin() + position)
At(indices, position) == indices[position + 1]

\* a search that stops behind the entries equal to value
RECURSIVE upper_bound(_, _, _, _)
upper_bound(indices, first, len, value) ==
  IF len <= 0 THEN first
  ELSE LET half == len \div 2
           middle == first + half
       IN IF At(indices, middle) <= value
            THEN upper_bound(indices, middle + 1, len - half - 1, value)
            ELSE upper_bound(indices, first, half, value)

\* std::lower_bound(begin + first, begin + first + len, value) - begin: the
\* binary search for the first entry that is not less than value
RECURSIVE lower_bound(_, _, _, _)
lower_bound(indices, first, len, value) ==
  IF len <= 0 THEN first
  ELSE LET half == len \div 2
           middle == first + half
       IN IF At(indices, middle) < value
            THEN lower_bound(indices, middle + 1, len - half - 1, value)
            ELSE lower_bound(indices, first, half, value)

\* the Assert of the debug build on the order of the entries of the range
SortedOver(indices, r) ==
  \A i \in (r[1] + 1)..(r[2] - 1) : At(indices, i) >= At(indices, i - 1)

\* the two searches of create_cell_subrange_hp_by_index
SearchedRange(indices, r, index) ==
  LET first == lower_bound(indices, r[1], r[2] - r[1], index)
  IN <<first, lower_bound(indices, first, r[2] - first, index + 1)>>

RangeInit ==
  /\ dim = 2 /\ spacedim = 2
  /\ polynomial_degree = 1
  /\ preserves = TRUE
  /\ debug \in BOOLEAN
  /\ geom = "general"
  /\ inverted = FALSE
  /\ IdleQuery
  /\ env = [n_cells |-> 1, n_lanes |-> 1, n_procs |-> 1, fes_size |-> 1,
            periodic |-> FALSE]
  /\ Constructed
  /\ IdleFill
  /\ IdleFormula
  /\ EmptyPool
  /\ CoarseMesh
  /\ IdleGraph
  /\ IdleFlags
  /\ FreshData
  /\ range_pc = "idle"
  /\ active_fe_indices
       \in UNION {[1..n -> 0..(max_fe_index - 1)] : n \in 0..MaxIndices}
  /\ range = <<0, 0>>
  /\ fe_index = 0
  /\ return_range = <<0, 0>>
  /\ range_error = "none"
  /\ IdleGuess

not_range_vars ==
  <<inv_vars, setup_vars, fill_vars, formula_vars, pool_vars, tree_vars,
    graph_vars, flags_vars, cache_vars,
    guess_vars>>

\* create_cell_subrange_hp_by_index(range, fe_index, vector_component)
create_cell_subrange_hp_by_index ==
  /\ range_pc = "idle"
  /\ \E first \in 0..MaxIndices, second \in 0..MaxIndices,
        index \in 0..(max_fe_index - 1) :
       /\ first <= second
       /\ active_fe_indices # <<>> => second <= Len(active_fe_indices)
       /\ range' = <<first, second>>
       /\ fe_index' = index
       /\ IF active_fe_indices = <<>>
            THEN /\ return_range' = <<first, second>>
                 /\ range_error' = "none"
          ELSE IF debug /\ ~SortedOver(active_fe_indices, <<first, second>>)
            THEN /\ range_error' = "ExcMessage"
                 /\ UNCHANGED return_range
          ELSE /\ return_range' = SearchedRange(active_fe_indices,
                                                <<first, second>>, index)
               /\ range_error' = "none"
  /\ range_pc' = "returned"
  /\ UNCHANGED <<active_fe_indices, not_range_vars>>

\* the next call on the same object
NextRange ==
  /\ range_pc = "returned"
  /\ range_pc' = "idle"
  /\ UNCHANGED <<active_fe_indices, range, fe_index, return_range,
                 range_error, not_range_vars>>

RangeNext ==
  \/ create_cell_subrange_hp_by_index
  \/ NextRange

SpecRange == RangeInit /\ [][RangeNext]_vars

-----------------------------------------------------------------------------
(* Claims about create_cell_subrange_hp_by_index *)

\* the positions of the range
PositionsOf(r) == r[1]..(r[2] - 1)

\* C27: create_cell_subrange_hp_by_index returns range unchanged when no
\* per-cell FE indices are stored; otherwise, for a range over which
\* cell_active_fe_index is sorted, it returns a sub-range [first, second) of
\* range that holds exactly the positions of range whose active FE index is
\* fe_index, and is empty when there is none
C27_SubrangeOfIndex ==
  (range_pc = "returned" /\ range_error = "none") =>
    IF active_fe_indices = <<>>
      THEN return_range = range
      ELSE SortedOver(active_fe_indices, range) =>
             /\ range[1] <= return_range[1]
             /\ return_range[1] <= return_range[2]
             /\ return_range[2] <= range[2]
             /\ \A i \in PositionsOf(range) :
                  At(active_fe_indices, i) = fe_index
                    <=> i \in PositionsOf(return_range)

\* the cells with index 1 are found in the middle of a sorted range
C27_MiddleOfRange ==
  /\ range_pc = "returned"
  /\ range_error = "none"
  /\ active_fe_indices = <<0, 1, 2>>
  /\ range = <<0, 3>>
  /\ fe_index = 1
  /\ return_range = <<1, 2>>

-----------------------------------------------------------------------------
(* MappingQGeneric: the initial guess of the inverse transformations *)

\* a mapping that does not preserve the vertex locations moves the vertices
\* by at most MaxShift
MaxShift == 1

\* compute_mapping_support_points(cell): the first 2^dim support points, the
\* vertices as the mapping places them
VertexSupportPoints(shift) ==
  <<[d \in 1..spacedim |-> Vertex0[d] + shift],
    [d \in 1..spacedim |-> Vertex1[d] + shift]>>

\* apply_transformation(A_inv, real_points[i] - affine_factors.second) with
\* the factors GridTools::affine_cell_approximation makes of two points
affine_cell_approximation(support, q) ==
  LET d == Minus(support[2], support[1])
  IN Quot(Dot(Minus(q, [i \in 1..spacedim |-> Scale * support[1][i]]), d),
          Dot(d, d))

\* initial_p_unit[d] = 0.5
mid_point == Scale \div 2

GuessInit ==
  /\ dim = 1
  /\ spacedim \in {1, 2}
  /\ polynomial_degree \in 1..MaxDegree
  /\ preserves \in BOOLEAN
  /\ debug = FALSE
  /\ geom = "affine"
  /\ inverted = FALSE
  /\ IdleQuery
  /\ env = [n_cells |-> 1, n_lanes |-> 1, n_procs |-> 1, fes_size |-> 1,
            periodic |-> FALSE]
  /\ Constructed
  /\ IdleFill
  /\ IdleFormula
  /\ EmptyPool
  /\ CoarseMesh
  /\ IdleGraph
  /\ IdleFlags
  /\ FreshData
  /\ IdleRange
  /\ guess_pc = "idle"
  /\ guess_call = "none"
  /\ real_point = <<>>
  /\ support_shift \in (IF preserves THEN {0} ELSE 0..MaxShift)
  /\ initial_guess = 0
  /\ handed_to_newton = <<>>

not_guess_vars ==
  <<inv_vars, setup_vars, fill_vars, formula_vars, pool_vars, tree_vars,
    graph_vars, flags_vars, cache_vars, range_vars>>

\* the points asked about: on the line of the cell, inside it and up to
\* MaxCoord beyond its ends
RealPoints ==
  {[d \in 1..spacedim |-> IF d = 1 THEN Scale * r ELSE 0] :
     r \in (0 - MaxCoord)..(CellLength + MaxCoord)}

\* transform_real_to_unit_cell(cell, p), lines 2267-2296, which are reached
\* when no exact formula has returned
GuessForPoint ==
  /\ guess_pc = "idle"
  /\ ~(UseExactFormula /\ spacedim = 1)
  /\ \E q \in RealPoints :
       /\ real_point' = q
       /\ LET initial_p_unit ==
                IF preserves THEN real_to_unit_cell_affine_approximation(q)
                             ELSE mid_point
          IN /\ initial_guess' = initial_p_unit
             /\ handed_to_newton' =
                  IF preserves /\ dim = 1 /\ polynomial_degree = 1
                    THEN <<>>
                    ELSE <<project_to_unit_cell(initial_p_unit)>>
  /\ guess_call' = "transform_real_to_unit_cell"
  /\ guess_pc' = "guessed"
  /\ UNCHANGED <<support_shift, not_guess_vars>>

\* transform_points_real_to_unit_cell(cell, real_points, unit_points) at one
\* of the points
GuessForPoints ==
  /\ guess_pc = "idle"
  /\ \E q \in RealPoints :
       /\ real_point' = q
       /\ LET guess == affine_cell_approximation(
                         VertexSupportPoints(support_shift), q)
          IN /\ initial_guess' = guess
             /\ handed_to_newton' = <<project_to_unit_cell(guess)>>
  /\ guess_call' = "transform_points_real_to_unit_cell"
  /\ guess_pc' = "guessed"
  /\ UNCHANGED <<support_shift, not_guess_vars>>

\* the next point
NextGuess ==
  /\ guess_pc = "guessed"
  /\ guess_pc' = "idle"
  /\ UNCHANGED <<guess_call, real_point, support_shift, initial_guess,
                 handed_to_newton, not_guess_vars>>

GuessNext ==
  \/ GuessForPoint
  \/ GuessForPoints
  \/ NextGuess

SpecGuess == GuessInit /\ [][GuessNext]_vars

-----------------------------------------------------------------------------
(* Claims about the initial guess *)

\* the Newton iteration has been handed a point
NewtonStarted == guess_pc = "guessed" /\ handed_to_newton # <<>>

\* the point lies in the reference cell
InUnitCell(x) == 0 <= x /\ x <= Scale

\* y is the point of the reference cell next to x
ProjectionOf(x, y) ==
  /\ InUnitCell(y)
  /\ x < 0 => y = 0
  /\ x > Scale => y = Scale
  /\ InUnitCell(x) => y = x

\* C28 as stated: the point handed to the Newton iteration by
\* transform_real_to_unit_cell and by transform_points_real_to_unit_cell lies
\* in the reference cell; it is the affine approximation when the mapping
\* preserves vertex locations, otherwise the cell center, projected onto the
\* unit cell
C28_AffineOrCenter ==
  NewtonStarted =>
    /\ InUnitCell(handed_to_newton[1])
    /\ ProjectionOf(IF preserves
                      THEN real_to_unit_cell_affine_approximation(real_point)
                      ELSE mid_point,
                    handed_to_newton[1])

\* C28: the point handed to the Newton iteration lies in the reference cell
\* and is the projection of the guess; the guess of
\* transform_real_to_unit_cell is the affine approximation when the mapping
\* preserves vertex locations and the cell center otherwise, that of
\* transform_points_real_to_unit_cell is the affine approximation made of
\* the mapping's support points, whether or not vertex locations are
\* preserved
C28_ProjectedGuess ==
  NewtonStarted =>
    /\ InUnitCell(handed_to_newton[1])
    /\ ProjectionOf(initial_guess, handed_to_newton[1])
    /\ guess_call = "transform_real_to_unit_cell" =>
         initial_guess =
           (IF preserves
              THEN real_to_unit_cell_affine_approximation(real_point)
              ELSE mid_point)
    /\ guess_call = "transform_points_real_to_unit_cell" =>
         initial_guess =
           affine_cell_approximation(VertexSupportPoints(support_shift),
                                     real_point)

\* transform_points_real_to_unit_cell of a mapping that moves the vertices:
\* the guess for a point beyond the cell is projected to its far end
C28_PointsGuessProjected ==
  /\ NewtonStarted
  /\ guess_call = "transform_points_real_to_unit_cell"
  /\ ~preserves
  /\ support_shift > 0
  /\ initial_guess > Scale
  /\ handed_to_newton = <<Scale>>

=============================================================================
